---------------------------- MODULE Spec2Model ----------------------------
(***************************************************************************)
(* Model of the rule-resolution core of the dnd5e system:                  *)
(*   - d20Roll / damageRoll and their fast-forward, advantage and critical *)
(*     resolution (dice module),                                           *)
(*   - Advancement / AdvancementFlow application and reversal,             *)
(*   - the [[/check]], [[/save]], [[/damage]], [[/item]] text enrichers    *)
(*     and rollAction, the click handler of the links they create,         *)
(*   - the ProficiencyCycleElement custom element,                         *)
(*   - CompendiumBrowser: intersectFilters, fetch, and the application     *)
(*     with its filters, sidebar and results table,                        *)
(*   - GroupActorSheet and the apps registries of its members.             *)
(* JavaScript values that may be absent are modelled as the strings        *)
(* "true", "false" and "undefined".                                        *)
(***************************************************************************)
EXTENDS Integers, Sequences, FiniteSets, TLC

VARIABLES
    \* ---- dice: one d20Roll / damageRoll invocation at a time
    downKeys,     \* game.keyboard.downKeys
    rollPc,       \* position of the running roll function
    rollCfg,      \* the configuration object the caller passed
    callerData,   \* the caller's `data` object (passed by reference)
    roll,         \* the D20Roll / DamageRoll instance
    rollResult,   \* what the roll function returned
    \* ---- advancement: one item's advancements applied to one character
    advData,      \* the item's advancement array: per node its data (level, title, value)
    actorProps,   \* the character's properties
    actorItems,   \* the character's embedded items
    charLevel,    \* levels whose advancements are complete
    applied,      \* nodes the manager has recorded as applied
    advPc,        \* position of the running apply
    advCur,       \* the apply in progress: node, prepared update, items
    advTrail,     \* history: pre-apply snapshot and what happened since
    advError,     \* a failure was surfaced by the last apply
    advSource,    \* parent.data.data.advancement: the item's source array
    srcTrail,     \* history: the last updateSource call and the array before it
    advProbe,     \* history: a propertyUpdates / itemUpdates call and its results
    \* ---- text enrichers: one enrichString call at a time
    enrichPc,     \* "idle" or "done"
    enrichIn,     \* the match: type, parsed config, label, and the world's documents
    enrichOut,    \* what the enricher returned, and whether it warned
    dmgIn,        \* the [[/damage]] text of the match: its parts as parseConfig reads them
    dmgOut,       \* what enrichDamage built: localization data, Roll evaluations
    \* ---- roll links: one click handled at a time
    clickPc,      \* "idle" or "done"
    clickIn,      \* the click: the link's dataset, the speaker, the world's documents
    clickOut,     \* what rollAction did: warnings, the method invoked, an exception
    \* ---- one <proficiency-cycle> element
    pce,          \* its attributes, #value, shadow DOM, listeners, abort controller
    pceLast,      \* history: the last operation on it, the value before, its outcome
    pceSteps,     \* history: the consecutive steps taken since the last other operation
    \* ---- CompendiumBrowser.intersectFilters: one call at a time
    ixPc,         \* "idle" or "done"
    ixFirst,      \* the Map passed as `first`, as it is now
    ixSecond,     \* the Map passed as `second`, as it is now
    ixIn,         \* history: the two Maps as they were passed
    ixOut,        \* the Map returned
    \* ---- CompendiumBrowser.fetch: one call
    fPc,          \* "idle" or "done"
    fArgs,        \* documentClass, types and sort of the call
    fFilters,     \* the caller's filters array, as it is now
    fIn,          \* history: the filters array as it was passed
    fOut,         \* the documents returned
    \* ---- one CompendiumBrowser application
    bFilters,     \* #filters: what the user chose
    bLocked,      \* options.filters.locked
    bCurrent,     \* history: what currentFilters returned last
    bSidebar,     \* the additional filters the sidebar part "filters" shows
    bFetch,       \* #results: the arguments of the fetch started last
    bPending,     \* the fetches a _renderResults call is still awaiting
    bRows,        \* the fetch whose rows are in the results table
    bRenders,     \* how many renders of the results part were made
    bLast,        \* history: the last handler, and #filters as it left them
    \* ---- one GroupActorSheet
    gMembers,     \* this.object.system.members
    gApps,        \* the actors whose apps registry holds the sheet under its id
    gOpen,        \* the sheet is rendered
    gEditable,    \* this.isEditable
    gLast         \* history: the last operation on the sheet

rollVars == <<downKeys, rollPc, rollCfg, callerData, roll, rollResult>>

advVars == <<advData, actorProps, actorItems, charLevel, applied, advPc, advCur,
             advTrail, advError, advSource, srcTrail, advProbe>>

enrichVars == <<enrichPc, enrichIn, enrichOut, dmgIn, dmgOut>>

actionVars == <<clickPc, clickIn, clickOut>>

cycleVars == <<pce, pceLast, pceSteps>>

intersectVars == <<ixPc, ixFirst, ixSecond, ixIn, ixOut>>

fetchVars == <<fPc, fArgs, fFilters, fIn, fOut>>

appVars == <<bFilters, bLocked, bCurrent, bSidebar, bFetch, bPending, bRows, bRenders, bLast>>

browserVars == <<intersectVars, fetchVars, appVars>>

groupVars == <<gMembers, gApps, gOpen, gEditable, gLast>>

vars == <<rollVars, advVars, enrichVars, actionVars, cycleVars, browserVars, groupVars>>

-----------------------------------------------------------------------------
(* JavaScript tri-state values                                             *)

T == "true"
F == "false"
U == "undefined"
Tri == {T, F, U}

\* `x = false` default parameter: only undefined is replaced
DefaultFalse(x) == IF x = U THEN F ELSE x
\* `x = true` default parameter
DefaultTrue(x) == IF x = U THEN T ELSE x

-----------------------------------------------------------------------------
(* Keybindings helper                                                      *)

Keys == {"ShiftLeft", "AltLeft", "ControlLeft"}
Modifiers == {"Control", "Shift", "Alt"}

D20Actions == {"d20RollFastForwardNormal", "d20RollFastForwardAdvantage",
               "d20RollFastForwardDisadvantage"}
DamageActions == {"damageRollFastForwardNormal", "damageRollFastForwardCritical"}

\* The keybinding table is configured in the host; the dice module only reads
\* it. The system's defaults (Shift: normal, Alt: advantage or critical,
\* Control: disadvantage) plus one user-added binding that needs a modifier.
Bindings ==
    [a \in D20Actions \cup DamageActions |->
       CASE a = "d20RollFastForwardNormal"       -> {[key |-> "ShiftLeft", modifiers |-> {}]}
         [] a = "d20RollFastForwardAdvantage"    -> {[key |-> "AltLeft", modifiers |-> {}]}
         [] a = "d20RollFastForwardDisadvantage" -> {[key |-> "ControlLeft", modifiers |-> {}],
                                                     [key |-> "ShiftLeft", modifiers |-> {"Control"}]}
         [] a = "damageRollFastForwardNormal"    -> {[key |-> "ShiftLeft", modifiers |-> {}],
                                                     [key |-> "ControlLeft", modifiers |-> {}]}
         [] a = "damageRollFastForwardCritical"  -> {[key |-> "AltLeft", modifiers |-> {}],
                                                     [key |-> "ControlLeft", modifiers |-> {"Alt"}]}]

\* A triggering event: absent, or a DOM event with its modifier flags, of
\* which at most MaxModifiers are set
MaxModifiers == 1

B2N(b) == IF b THEN 1 ELSE 0

NoEvent == [present |-> FALSE, ctrlKey |-> FALSE, metaKey |-> FALSE,
            shiftKey |-> FALSE, altKey |-> FALSE]
Events == {NoEvent} \cup
          {e \in [present : {TRUE}, ctrlKey : BOOLEAN, metaKey : BOOLEAN,
                  shiftKey : BOOLEAN, altKey : BOOLEAN] :
             B2N(e.ctrlKey) + B2N(e.metaKey) + B2N(e.shiftKey) + B2N(e.altKey) <= MaxModifiers}

activeModifiers(event) ==
    [m \in Modifiers |->
       CASE m = "Control" -> event.ctrlKey \/ event.metaKey
         [] m = "Shift"   -> event.shiftKey
         [] m = "Alt"     -> event.altKey]

_areKeysPressed(event, action) ==
    \E b \in Bindings[action] :
        /\ b.key \in downKeys
        /\ \A m \in b.modifiers : activeModifiers(event)[m]

-----------------------------------------------------------------------------
(* d20 advantage mode                                                      *)

AdvModes == {"NORMAL", "ADVANTAGE", "DISADVANTAGE"}

d20Keys(event) ==
    [normal       |-> IF event.present THEN _areKeysPressed(event, "d20RollFastForwardNormal") ELSE FALSE,
     advantage    |-> IF event.present THEN _areKeysPressed(event, "d20RollFastForwardAdvantage") ELSE FALSE,
     disadvantage |-> IF event.present THEN _areKeysPressed(event, "d20RollFastForwardDisadvantage") ELSE FALSE]

\* mutants of _determineAdvantageMode
\* (a) the keys are looked at before the explicit advantage flag
_determineAdvantageModeKeysFirst(event, advantage, disadvantage, fastForward) ==
    LET keys == d20Keys(event)
        adv  == DefaultFalse(advantage)
        dis  == DefaultFalse(disadvantage)
        isFF == IF fastForward # U THEN fastForward = T
                ELSE keys.normal \/ keys.advantage \/ keys.disadvantage
        mode == IF keys.disadvantage THEN "DISADVANTAGE"
                ELSE IF adv = T \/ keys.advantage THEN "ADVANTAGE"
                ELSE IF dis = T THEN "DISADVANTAGE"
                ELSE "NORMAL"
    IN  [isFF |-> isFF, advantageMode |-> mode]

\* (b) the explicit fastForward flag is or-ed with the keys instead of replacing them
_determineAdvantageModeOrKeys(event, advantage, disadvantage, fastForward) ==
    LET keys == d20Keys(event)
        adv  == DefaultFalse(advantage)
        dis  == DefaultFalse(disadvantage)
        isFF == fastForward = T \/ keys.normal \/ keys.advantage \/ keys.disadvantage
        mode == IF adv = T \/ keys.advantage THEN "ADVANTAGE"
                ELSE IF dis = T \/ keys.disadvantage THEN "DISADVANTAGE"
                ELSE "NORMAL"
    IN  [isFF |-> isFF, advantageMode |-> mode]

\* (c) the disadvantage test comes first
_determineAdvantageModeDisFirst(event, advantage, disadvantage, fastForward) ==
    LET keys == d20Keys(event)
        adv  == DefaultFalse(advantage)
        dis  == DefaultFalse(disadvantage)
        isFF == IF fastForward # U THEN fastForward = T
                ELSE keys.normal \/ keys.advantage \/ keys.disadvantage
        mode == IF dis = T \/ keys.disadvantage THEN "DISADVANTAGE"
                ELSE IF adv = T \/ keys.advantage THEN "ADVANTAGE"
                ELSE "NORMAL"
    IN  [isFF |-> isFF, advantageMode |-> mode]

_determineAdvantageMode(event, advantage, disadvantage, fastForward) ==
    LET keys == d20Keys(event)
        adv  == DefaultFalse(advantage)
        dis  == DefaultFalse(disadvantage)
        isFF == IF fastForward # U THEN fastForward = T
                ELSE keys.normal \/ keys.advantage \/ keys.disadvantage
        mode == IF adv = T \/ keys.advantage THEN "ADVANTAGE"
                ELSE IF dis = T \/ keys.disadvantage THEN "DISADVANTAGE"
                ELSE "NORMAL"
    IN  [isFF |-> isFF, advantageMode |-> mode]

-----------------------------------------------------------------------------
(* damage critical mode                                                    *)

damageKeys(event) ==
    [normal   |-> IF event.present THEN _areKeysPressed(event, "damageRollFastForwardNormal") ELSE FALSE,
     critical |-> IF event.present THEN _areKeysPressed(event, "damageRollFastForwardCritical") ELSE FALSE]

\* mutant of _determineCriticalMode: the explicit fastForward flag is or-ed
\* with the keys instead of replacing them
_determineCriticalModeOrKeys(event, critical, fastForward) ==
    LET keys == damageKeys(event)
        crit == DefaultFalse(critical)
    IN  [isFF |-> (fastForward = T \/ keys.normal \/ keys.critical),
         isCritical |-> (keys.critical \/ crit = T)]

_determineCriticalMode(event, critical, fastForward) ==
    LET keys == damageKeys(event)
        crit == DefaultFalse(critical)
        isFF == IF fastForward # U THEN fastForward = T
                ELSE keys.normal \/ keys.critical
    IN  [isFF |-> isFF, isCritical |-> (keys.critical \/ crit = T)]


-----------------------------------------------------------------------------
(* The roll workflow: d20Roll and damageRoll                               *)

NoRoll == [kind |-> "none", advantageMode |-> "none", critical |-> FALSE,
           dialog |-> "none", evaluated |-> FALSE, posted |-> FALSE]

\* the caller's data objects: empty, or an ability check's roll data
EmptyData == [mod |-> "absent", abilityCheckBonus |-> "absent"]
DataObjects == {EmptyData, [mod |-> "3", abilityCheckBonus |-> "1d4"]}

NoCfg == [kind |-> "none", advantage |-> U, disadvantage |-> U, critical |-> U,
          allowCritical |-> U, fastForward |-> U, event |-> NoEvent,
          chatMessage |-> U, chooseModifier |-> U]

D20Configurations ==
    [kind : {"d20"}, advantage : Tri, disadvantage : Tri, critical : {U},
     allowCritical : {U}, fastForward : Tri, event : Events,
     chatMessage : {U, F}, chooseModifier : {U, T}]

DamageConfigurations ==
    [kind : {"damage"}, advantage : {U}, disadvantage : {U}, critical : Tri,
     allowCritical : Tri, fastForward : Tri, event : Events,
     chatMessage : {U, F}, chooseModifier : {U}]

\* lines 63-66: the ability modifier becomes configurable in the dialog
d20Data(data, chooseModifier, isFF) ==
    IF DefaultFalse(chooseModifier) = T /\ ~isFF
    THEN [mod |-> "@mod",
          abilityCheckBonus |-> IF data.abilityCheckBonus # "absent"
                                THEN "@abilityCheckBonus" ELSE "absent"]
    ELSE data

\* mutant of damageCritical: the critical flag is honoured only when allowed
damageCriticalAllowed(isFF, isCritical, allowCritical) ==
    IF isFF THEN (isCritical /\ DefaultTrue(allowCritical) = T) ELSE FALSE

\* line 187: `critical: isFF ? isCritical : false`
damageCritical(isFF, isCritical, allowCritical) ==
    IF isFF THEN isCritical ELSE FALSE

\* mutant of dialogNeeded: the dialog is shown on fast-forward
dialogNeededInverted(isFF) == isFF

\* lines 83 and 196: `if ( !isFF )`
dialogNeeded(isFF) == ~isFF

d20Roll(cfg, data) ==
    /\ rollPc = "idle"
    /\ LET m == _determineAdvantageMode(cfg.event, cfg.advantage, cfg.disadvantage,
                                        cfg.fastForward)
       IN  /\ rollCfg' = cfg
           /\ callerData' = d20Data(data, cfg.chooseModifier, m.isFF)
           /\ roll' = [kind |-> "d20", advantageMode |-> m.advantageMode,
                       critical |-> FALSE,
                       dialog |-> IF dialogNeeded(m.isFF) THEN "open" ELSE "none",
                       evaluated |-> FALSE, posted |-> FALSE]
           /\ rollPc' = IF dialogNeeded(m.isFF) THEN "dialog" ELSE "evaluating"
    /\ UNCHANGED <<downKeys, rollResult>>

damageRoll(cfg, data) ==
    /\ rollPc = "idle"
    /\ LET m == _determineCriticalMode(cfg.event, cfg.critical, cfg.fastForward)
       IN  /\ rollCfg' = cfg
           /\ callerData' = data
           /\ roll' = [kind |-> "damage", advantageMode |-> "none",
                       critical |-> damageCritical(m.isFF, m.isCritical, cfg.allowCritical),
                       dialog |-> IF dialogNeeded(m.isFF) THEN "open" ELSE "none",
                       evaluated |-> FALSE, posted |-> FALSE]
           /\ rollPc' = IF dialogNeeded(m.isFF) THEN "dialog" ELSE "evaluating"
    /\ UNCHANGED <<downKeys, rollResult>>

\* mutant of configureDialogDismissed: the `return null` is missing
configureDialogDismissedNoReturn ==
    /\ rollPc = "dialog"
    /\ roll' = [roll EXCEPT !.dialog = "dismissed"]
    /\ rollPc' = "evaluating"
    /\ UNCHANGED <<downKeys, rollCfg, callerData, rollResult>>

\* roll.configureDialog resolves to null: the function returns null (lines 92, 204)
configureDialogDismissed ==
    /\ rollPc = "dialog"
    /\ roll' = [roll EXCEPT !.dialog = "dismissed"]
    /\ rollResult' = "null"
    /\ rollPc' = "returned"
    /\ UNCHANGED <<downKeys, rollCfg, callerData>>

\* roll.configureDialog resolves to the roll, configured by the button the
\* user pressed; the critical button is offered only when allowCritical
configureDialogSubmitted ==
    /\ rollPc = "dialog"
    /\ \/ /\ roll.kind = "d20"
          /\ \E mode \in AdvModes :
                roll' = [roll EXCEPT !.dialog = "submitted", !.advantageMode = mode]
       \/ /\ roll.kind = "damage"
          /\ \E crit \in (IF DefaultTrue(rollCfg.allowCritical) = T THEN BOOLEAN ELSE {FALSE}) :
                roll' = [roll EXCEPT !.dialog = "submitted", !.critical = crit]
    /\ rollPc' = "evaluating"
    /\ UNCHANGED <<downKeys, rollCfg, callerData, rollResult>>

\* mutant of postRequested: the message is never created
postRequestedNever(chatMessage) == FALSE

\* lines 99 and 211: `if ( roll && chatMessage )`, chatMessage=true by default
postRequested(chatMessage) == DefaultTrue(chatMessage) = T

\* `await roll.evaluate({async: true})` completes (lines 96, 208)
evaluateDone ==
    /\ rollPc = "evaluating"
    /\ roll' = [roll EXCEPT !.evaluated = TRUE]
    /\ IF postRequested(rollCfg.chatMessage)
       THEN rollPc' = "posting" /\ UNCHANGED rollResult
       ELSE rollPc' = "returned" /\ rollResult' = "roll"
    /\ UNCHANGED <<downKeys, rollCfg, callerData>>

\* `await roll.toMessage(messageData)` completes, the roll is returned
toMessageDone ==
    /\ rollPc = "posting"
    /\ roll' = [roll EXCEPT !.posted = TRUE]
    /\ rollPc' = "returned"
    /\ rollResult' = "roll"
    /\ UNCHANGED <<downKeys, rollCfg, callerData>>

\* the caller is done with the result; the next roll can be requested
rollFinished ==
    /\ rollPc = "returned"
    /\ rollPc' = "idle"
    /\ rollCfg' = NoCfg
    /\ roll' = NoRoll
    /\ rollResult' = "pending"
    /\ callerData' = EmptyData
    /\ UNCHANGED downKeys

\* the keyboard manager tracks key presses between rolls
keyDown(k) ==
    /\ rollPc = "idle"
    /\ k \notin downKeys
    /\ downKeys' = downKeys \cup {k}
    /\ UNCHANGED <<rollPc, rollCfg, callerData, roll, rollResult>>

keyUp(k) ==
    /\ rollPc = "idle"
    /\ k \in downKeys
    /\ downKeys' = downKeys \ {k}
    /\ UNCHANGED <<rollPc, rollCfg, callerData, roll, rollResult>>

InitRoll ==
    /\ downKeys = {}
    /\ rollPc = "idle"
    /\ rollCfg = NoCfg
    /\ callerData = EmptyData
    /\ roll = NoRoll
    /\ rollResult = "pending"

D20RollCall ==
    \E cfg \in D20Configurations :
        \E data \in (IF cfg.chooseModifier = T THEN DataObjects ELSE {EmptyData}) :
            d20Roll(cfg, data)
DamageRollCall == \E cfg \in DamageConfigurations : damageRoll(cfg, EmptyData)
KeyDown == \E k \in Keys : keyDown(k)
KeyUp == \E k \in Keys : keyUp(k)

NextRoll ==
    \/ D20RollCall /\ UNCHANGED <<advVars, enrichVars, actionVars, cycleVars, browserVars, groupVars>>
    \/ DamageRollCall /\ UNCHANGED <<advVars, enrichVars, actionVars, cycleVars, browserVars, groupVars>>
    \/ configureDialogDismissed /\ UNCHANGED <<advVars, enrichVars, actionVars, cycleVars, browserVars, groupVars>>
    \/ configureDialogSubmitted /\ UNCHANGED <<advVars, enrichVars, actionVars, cycleVars, browserVars, groupVars>>
    \/ evaluateDone /\ UNCHANGED <<advVars, enrichVars, actionVars, cycleVars, browserVars, groupVars>>
    \/ toMessageDone /\ UNCHANGED <<advVars, enrichVars, actionVars, cycleVars, browserVars, groupVars>>
    \/ rollFinished /\ UNCHANGED <<advVars, enrichVars, actionVars, cycleVars, browserVars, groupVars>>
    \/ KeyDown /\ UNCHANGED <<advVars, enrichVars, actionVars, cycleVars, browserVars, groupVars>>
    \/ KeyUp /\ UNCHANGED <<advVars, enrichVars, actionVars, cycleVars, browserVars, groupVars>>

-----------------------------------------------------------------------------
(* Advancement and AdvancementFlow                                         *)
(* Objects (advancement values, form data, update objects) are sets of     *)
(* <<key, value>> pairs with unique keys; <<key, "-=">> in an update is    *)
(* the `-=key` deletion syntax.                                            *)

MaxLevel == 2

NodeIds == {"a1", "a2", "a3"}
Levels == 0 .. MaxLevel

\* the advancement types of the nodes: a1 and a3 are plain Advancement
\* objects, a2 is of a type that grants items
NodeType == [n \in NodeIds |-> IF n = "a2" THEN "ItemGrant" ELSE "Advancement"]
GrantedItems == [n \in NodeIds |-> IF n = "a2" THEN {"i1", "i2"} ELSE {}]

EmptyObject == {}
FormDatas == {EmptyObject, {<<"choice", "x">>}, {<<"choice", "y">>}}

\* foundry.utils.mergeObject(original, other), with `-=key` deletions
mergeObject(original, other) ==
    {p \in original : ~\E q \in other : q[1] = p[1]}
        \cup {q \in other : q[2] # "-="}

\* mutant of levels: level 1 is taken for "no level"
levelsAboveOne(data) == IF data.level > 1 THEN {data.level} ELSE {}

\* Advancement#levels: `this.data.level ? [this.data.level] : []`
levels(data) == IF data.level # 0 THEN {data.level} ELSE {}

\* Advancement#configuredForLevel
configuredForLevel(data, level) == TRUE

\* Advancement.metadata.order
MetadataOrder == 100
\* titles compare as strings; a title is modelled by its rank among the titles
TitleRanks == Cardinality(NodeIds)

\* Advancement#sortingValueForLevel: the padded order, then the title
sortingValueForLevel(data, level) == MetadataOrder * TitleRanks + data.title

\* AdvancementFlow#sortingValue
sortingValue(data, level) == sortingValueForLevel(data, level)

\* mutant of propertyUpdates: the result depends on what the manager has
\* applied so far
propertyUpdatesHiddenState(level, updates, reverse) ==
    IF applied = {} THEN EmptyObject ELSE {<<"hp", "11">>}

\* Advancement#propertyUpdates
propertyUpdates(level, updates, reverse) == EmptyObject

\* Advancement#itemUpdates
itemUpdates(level, updates, reverse) == [add |-> {}, remove |-> {}]

\* AdvancementFlow#prepareUpdate
prepareUpdate(formData) == formData

\* AdvancementFlow#finalizeUpdate
finalizeUpdate(update, itemsAdded) == update

\* mutant of reverseUpdate: an update is returned that removes the stored keys
reverseUpdateRemoving(value) == {<<p[1], "-=">> : p \in value}

\* AdvancementFlow#reverseUpdate: `return {}`
reverseUpdate(value) == EmptyObject

\* An item-granting advancement type and its flow (overrides of the methods
\* above): the configured items are added, the items added are booked in the
\* node's value, and the reverse removes exactly the booked items and the
\* stored value.
grantItemUpdates(n, value, level, updates, reverse) ==
    IF reverse
    THEN [add |-> {}, remove |-> {p[1] : p \in {q \in value : q[2] = "added"}}]
    ELSE [add |-> GrantedItems[n], remove |-> {}]

grantFinalizeUpdate(update, itemsAdded) ==
    update \cup {<<i, "added">> : i \in itemsAdded}

grantReverseUpdate(value) == {<<p[1], "-=">> : p \in value}

\* method dispatch on the node's type
nodeItemUpdates(n, value, level, updates, reverse) ==
    IF NodeType[n] = "ItemGrant"
    THEN grantItemUpdates(n, value, level, updates, reverse)
    ELSE itemUpdates(level, updates, reverse)

nodeFinalizeUpdate(n, update, itemsAdded) ==
    IF NodeType[n] = "ItemGrant"
    THEN grantFinalizeUpdate(update, itemsAdded)
    ELSE finalizeUpdate(update, itemsAdded)

nodeReverseUpdate(n, value) ==
    IF NodeType[n] = "ItemGrant"
    THEN grantReverseUpdate(value)
    ELSE reverseUpdate(value)

\* Advancement#update: the value update is merged into the stored data
update(data, valueUpdate) ==
    [data EXCEPT !.value = mergeObject(data.value, valueUpdate)]

\* the entry of the item's source array for node n
sourceEntry(n, data) ==
    [_id |-> n, level |-> data.level, title |-> data.title, value |-> data.value]

\* the item's source array as the item was authored: the nodes in id order
NodeOrder == <<"a1", "a2", "a3">>
sourceOf(data) == [i \in 1 .. Len(NodeOrder) |-> sourceEntry(NodeOrder[i], data[NodeOrder[i]])]

\* parent.updateAdvancement(id, updates) as Advancement#update uses it: the
\* entry of that id holds the updated data afterwards
updateAdvancement(source, n, data) ==
    [i \in 1 .. Len(source) |->
        IF source[i]._id = n THEN sourceEntry(n, data) ELSE source[i]]

\* updates for updateSource, in the format of Document#update: a new level
\* (NoChange: the key is not in the update) and changes of the value
NoChange == -1
SourceUpdates ==
    [level : {NoChange} \cup (1 .. MaxLevel), value : {EmptyObject, {<<"choice", "x">>}}]

\* foundry.utils.mergeObject on an advancement's data
mergeData(data, updates) ==
    [data EXCEPT !.level = IF updates.level = NoChange THEN @ ELSE updates.level,
                 !.value = mergeObject(@, updates.value)]

\* mutant of findIndex: the first entry is taken, whatever its _id
findIndexFirst(source, id) == IF Len(source) > 0 THEN 1 ELSE 0

\* `advancement.findIndex(a => a._id === this.id)`, 1-based; 0 for JavaScript's -1
findIndex(source, id) ==
    IF \E i \in 1 .. Len(source) : source[i]._id = id
    THEN CHOOSE i \in 1 .. Len(source) :
            /\ source[i]._id = id
            /\ \A j \in 1 .. (i - 1) : source[j]._id # id
    ELSE 0

NoSrcTrail == [id |-> "none", before |-> <<>>, threw |-> FALSE,
               updates |-> [level |-> NoChange, value |-> EmptyObject]]
NoProbe == [level |-> 0, updates |-> EmptyObject, reverse |-> FALSE,
            props |-> EmptyObject, items |-> [add |-> {}, remove |-> {}]]

NoCur == [id |-> "none", level |-> 0, update |-> EmptyObject, add |-> {},
          itemsAdded |-> {}]
NoTrail == [id |-> "none", phase |-> "none", props |-> EmptyObject,
            items |-> {}, value |-> EmptyObject, failed |-> {}]

\* the flows of a level, and the next one in the manager's order
flowsOf(level) == {n \in NodeIds : level \in levels(advData[n])}

nextFlow(level) ==
    {n \in flowsOf(level) \ applied :
        \A m \in flowsOf(level) \ applied :
            sortingValue(advData[n], level) <= sortingValue(advData[m], level)}

lastFlow(level) ==
    {n \in flowsOf(level) \cap applied :
        \A m \in flowsOf(level) \cap applied :
            sortingValue(advData[m], level) <= sortingValue(advData[n], level)}

\* apply(level), first step: the updates are computed from the form data and
\* the creation of the items is requested
applyStart(n, formData) ==
    /\ advPc = "idle"
    /\ charLevel < MaxLevel
    /\ n \in nextFlow(charLevel + 1)
    /\ configuredForLevel(advData[n], charLevel + 1)
    /\ LET level == charLevel + 1
           upd   == prepareUpdate(formData)
           props == propertyUpdates(level, upd, FALSE)
           items == nodeItemUpdates(n, advData[n].value, level, upd, FALSE)
       IN  /\ advCur' = [id |-> n, level |-> level, update |-> upd,
                         add |-> items.add, itemsAdded |-> {}]
           /\ advTrail' = [id |-> n, phase |-> "applying", props |-> actorProps,
                           items |-> actorItems, value |-> advData[n].value,
                           failed |-> {}]
           /\ actorProps' = mergeObject(actorProps, props)
    /\ advPc' = "creating"
    /\ advError' = FALSE
    /\ UNCHANGED <<advData, actorItems, charLevel, applied, advSource>>

\* the document store created every requested item
itemsCreated ==
    /\ advPc = "creating"
    /\ actorItems' = actorItems \cup advCur.add
    /\ advCur' = [advCur EXCEPT !.itemsAdded = advCur.add]
    /\ advPc' = "storing"
    /\ UNCHANGED <<advData, actorProps, charLevel, applied, advTrail, advError, advSource>>

\* mutant of itemCreationFailed: the value is stored although items are missing
itemCreationFailedStored(created) ==
    /\ advPc = "creating"
    /\ created # advCur.add
    /\ actorItems' = actorItems \cup created
    /\ advData' = [advData EXCEPT ![advCur.id] =
                     update(@, nodeFinalizeUpdate(advCur.id, advCur.update, created))]
    /\ advSource' = updateAdvancement(advSource, advCur.id, advData'[advCur.id])
    /\ applied' = applied \cup {advCur.id}
    /\ advTrail' = [advTrail EXCEPT !.phase = "failed", !.failed = advCur.add \ created]
    /\ advError' = TRUE
    /\ advPc' = "idle"
    /\ advCur' = NoCur
    /\ UNCHANGED <<actorProps, charLevel>>

\* the document store failed after creating only `created`: what was
\* applied for this level is rolled back and the failure is surfaced
itemCreationFailed(created) ==
    /\ advPc = "creating"
    /\ created # advCur.add
    /\ actorItems' = advTrail.items
    /\ actorProps' = advTrail.props
    /\ advTrail' = [advTrail EXCEPT !.phase = "failed", !.failed = advCur.add \ created]
    /\ advError' = TRUE
    /\ advPc' = "idle"
    /\ advCur' = NoCur
    /\ UNCHANGED <<advData, charLevel, applied, advSource>>

\* the value is finalized and stored with Advancement#update
valueStored ==
    /\ advPc = "storing"
    /\ advData' = [advData EXCEPT ![advCur.id] =
                     update(@, nodeFinalizeUpdate(advCur.id, advCur.update,
                                                  advCur.itemsAdded))]
    /\ advSource' = updateAdvancement(advSource, advCur.id, advData'[advCur.id])
    /\ applied' = applied \cup {advCur.id}
    /\ advTrail' = [advTrail EXCEPT !.phase = "applied"]
    /\ advPc' = "idle"
    /\ advCur' = NoCur
    /\ UNCHANGED <<actorProps, actorItems, charLevel, advError>>

\* reverse(level): the inverse updates are applied and the reverse value
\* update is stored
reverse(n) ==
    /\ advPc = "idle"
    /\ charLevel < MaxLevel
    /\ n \in lastFlow(charLevel + 1)
    /\ LET level == charLevel + 1
           props == propertyUpdates(level, EmptyObject, TRUE)
           items == nodeItemUpdates(n, advData[n].value, level, EmptyObject, TRUE)
       IN  /\ actorProps' = mergeObject(actorProps, props)
           /\ actorItems' = actorItems \ items.remove
           /\ advData' = [advData EXCEPT ![n] =
                            update(@, nodeReverseUpdate(n, advData[n].value))]
    /\ advSource' = updateAdvancement(advSource, n, advData'[n])
    /\ applied' = applied \ {n}
    /\ advTrail' = IF advTrail.id = n /\ advTrail.phase = "applied"
                   THEN [advTrail EXCEPT !.phase = "reversed"]
                   ELSE [advTrail EXCEPT !.phase = "none"]
    /\ advError' = FALSE
    /\ UNCHANGED <<charLevel, advPc, advCur>>

\* every flow of the next level is done: the character has the level
levelUp ==
    /\ advPc = "idle"
    /\ charLevel < MaxLevel
    /\ flowsOf(charLevel + 1) \subseteq applied
    /\ charLevel' = charLevel + 1
    /\ advTrail' = [advTrail EXCEPT !.phase = "none"]
    /\ advError' = FALSE
    /\ UNCHANGED <<advData, actorProps, actorItems, applied, advPc, advCur, advSource>>

\* the character loses its highest level: its flows can be reversed
levelDown ==
    /\ advPc = "idle"
    /\ charLevel > 0
    /\ charLevel < MaxLevel => flowsOf(charLevel + 1) \cap applied = {}
    /\ charLevel' = charLevel - 1
    /\ advTrail' = [advTrail EXCEPT !.phase = "none"]
    /\ advError' = FALSE
    /\ UNCHANGED <<advData, actorProps, actorItems, applied, advPc, advCur, advSource>>

\* Advancement#updateSource(updates) on the advancement object of node n
updateSource(n, updates) ==
    /\ advPc = "idle"
    /\ LET idx == findIndex(advSource, n)
       IN  IF idx = 0
           THEN \* `throw new Error(...)` before anything is written
                /\ srcTrail' = [id |-> n, before |-> advSource, threw |-> TRUE,
                                updates |-> updates]
                /\ UNCHANGED <<advData, advSource>>
           ELSE /\ advData' = [advData EXCEPT ![n] = mergeData(@, updates)]
                /\ advSource' = [advSource EXCEPT ![idx] = mergeData(@, updates)]
                /\ srcTrail' = [id |-> n, before |-> advSource, threw |-> FALSE,
                                updates |-> updates]
    /\ UNCHANGED <<actorProps, actorItems, charLevel, applied, advPc, advCur,
                   advTrail, advError, advProbe>>

\* a caller gathers the updates of a plain Advancement for a level:
\* propertyUpdates({level, updates, reverse}) and itemUpdates({...})
gatherUpdates(level, updates, rev) ==
    /\ advProbe' = [level |-> level, updates |-> updates, reverse |-> rev,
                    props |-> propertyUpdates(level, updates, rev),
                    items |-> itemUpdates(level, updates, rev)]
    /\ UNCHANGED <<advData, actorProps, actorItems, charLevel, applied, advPc,
                   advCur, advTrail, advError, advSource, srcTrail>>

\* Advancement.defaultData: the value starts as metadata.data.value ({});
\* the level and title of each node are its author's choice
AdvDatas == [level : Levels, title : 0 .. TitleRanks - 1, value : {EmptyObject}]

InitAdv ==
    /\ advData \in [NodeIds -> AdvDatas]
    /\ \A n, m \in NodeIds : n # m => advData[n].title # advData[m].title
    /\ actorProps = {<<"hp", "10">>}
    /\ actorItems = {"i0"}
    /\ charLevel = 0
    /\ applied = {}
    /\ advPc = "idle"
    /\ advCur = NoCur
    /\ advTrail = NoTrail
    /\ advError = FALSE
    /\ advSource = sourceOf(advData)
    /\ srcTrail = NoSrcTrail
    /\ advProbe = NoProbe

\* the advancement state of a character nobody is levelling
QuietAdv ==
    /\ advData = [n \in NodeIds |->
                    [level |-> 1, title |-> IF n = "a1" THEN 0 ELSE IF n = "a2" THEN 1 ELSE 2,
                     value |-> EmptyObject]]
    /\ actorProps = {<<"hp", "10">>}
    /\ actorItems = {"i0"}
    /\ charLevel = 0
    /\ applied = {}
    /\ advPc = "idle"
    /\ advCur = NoCur
    /\ advTrail = NoTrail
    /\ advError = FALSE
    /\ advSource = sourceOf(advData)
    /\ srcTrail = NoSrcTrail
    /\ advProbe = NoProbe

ApplyStart == \E n \in NodeIds, formData \in FormDatas : applyStart(n, formData)
ItemCreationFailed == \E created \in SUBSET advCur.add : itemCreationFailed(created)
Reverse == \E n \in NodeIds : reverse(n)
GatherUpdates ==
    \E level \in 1 .. MaxLevel, updates \in FormDatas, rev \in BOOLEAN :
        gatherUpdates(level, updates, rev)
UpdateSource == \E n \in NodeIds, updates \in SourceUpdates : updateSource(n, updates)

NextAdv ==
    \/ ApplyStart /\ UNCHANGED <<rollVars, enrichVars, srcTrail, advProbe, actionVars, cycleVars, browserVars, groupVars>>
    \/ itemsCreated /\ UNCHANGED <<rollVars, enrichVars, srcTrail, advProbe, actionVars, cycleVars, browserVars, groupVars>>
    \/ ItemCreationFailed /\ UNCHANGED <<rollVars, enrichVars, srcTrail, advProbe, actionVars, cycleVars, browserVars, groupVars>>
    \/ valueStored /\ UNCHANGED <<rollVars, enrichVars, srcTrail, advProbe, actionVars, cycleVars, browserVars, groupVars>>
    \/ Reverse /\ UNCHANGED <<rollVars, enrichVars, srcTrail, advProbe, actionVars, cycleVars, browserVars, groupVars>>
    \/ levelUp /\ UNCHANGED <<rollVars, enrichVars, srcTrail, advProbe, actionVars, cycleVars, browserVars, groupVars>>
    \/ levelDown /\ UNCHANGED <<rollVars, enrichVars, srcTrail, advProbe, actionVars, cycleVars, browserVars, groupVars>>

\* the same engine while a caller gathers the updates of plain advancements
NextGather ==
    \/ GatherUpdates /\ UNCHANGED <<rollVars, enrichVars, actionVars, cycleVars, browserVars, groupVars>>
    \/ ApplyStart /\ UNCHANGED <<rollVars, enrichVars, srcTrail, advProbe, actionVars, cycleVars, browserVars, groupVars>>
    \/ itemsCreated /\ UNCHANGED <<rollVars, enrichVars, srcTrail, advProbe, actionVars, cycleVars, browserVars, groupVars>>
    \/ ItemCreationFailed /\ UNCHANGED <<rollVars, enrichVars, srcTrail, advProbe, actionVars, cycleVars, browserVars, groupVars>>
    \/ valueStored /\ UNCHANGED <<rollVars, enrichVars, srcTrail, advProbe, actionVars, cycleVars, browserVars, groupVars>>
    \/ Reverse /\ UNCHANGED <<rollVars, enrichVars, srcTrail, advProbe, actionVars, cycleVars, browserVars, groupVars>>
    \/ levelUp /\ UNCHANGED <<rollVars, enrichVars, srcTrail, advProbe, actionVars, cycleVars, browserVars, groupVars>>
    \/ levelDown /\ UNCHANGED <<rollVars, enrichVars, srcTrail, advProbe, actionVars, cycleVars, browserVars, groupVars>>

\* An item whose advancements are being edited: its source array holds any
\* of the nodes, in any order, and an advancement object can outlive its entry
SourceArrays ==
    {q \in UNION {[1 .. k -> NodeIds] : k \in 0 .. Cardinality(NodeIds)} :
        \A i, j \in DOMAIN q : i # j => q[i] # q[j]}

InitSource ==
    /\ advData = [n \in NodeIds |->
                    [level |-> 1, title |-> IF n = "a1" THEN 0 ELSE IF n = "a2" THEN 1 ELSE 2,
                     value |-> EmptyObject]]
    /\ \E q \in SourceArrays :
          advSource = [i \in DOMAIN q |-> sourceEntry(q[i], advData[q[i]])]
    /\ actorProps = {<<"hp", "10">>}
    /\ actorItems = {"i0"}
    /\ charLevel = 0
    /\ applied = {}
    /\ advPc = "idle"
    /\ advCur = NoCur
    /\ advTrail = NoTrail
    /\ advError = FALSE
    /\ srcTrail = NoSrcTrail
    /\ advProbe = NoProbe

NextSource ==
    \/ UpdateSource /\ UNCHANGED <<rollVars, enrichVars, actionVars, cycleVars, browserVars, groupVars>>

-----------------------------------------------------------------------------
(* Text enrichers: enrichCheck, enrichSave, enrichItem                     *)

MaxValues == 2

Absent == "absent"

\* CONFIG.DND5E.enrichmentLookup: the rules tables the enrichers read
AbilityLookup ==
    [k \in {"dex", "str", "dexterity"} |->
        IF k = "str" THEN [key |-> "str", label |-> "Strength"]
        ELSE [key |-> "dex", label |-> "Dexterity"]]

SkillLookup ==
    [k \in {"acr", "ath"} |->
        IF k = "acr" THEN [key |-> "acr", ability |-> "dex", label |-> "Acrobatics"]
        ELSE [key |-> "ath", ability |-> "str", label |-> "Athletics"]]

\* tools with their base item; the compendium index has no entry for "lute"
ToolLookup == [k \in {"thief", "lute"} |-> IF k = "thief" THEN "uuid.thief" ELSE "uuid.lute"]
BaseItemIndex == {"uuid.thief"}

\* Number.isNumeric on the tokens of the model
isNumeric(v) == v \in {"15"}

\* bare values that can stand in a check or save configuration
ValueTokens == {"dex", "str", "acr", "thief", "15", "passive", "xyz"}

Tuples(S, n) == UNION {[1 .. k -> S] : k \in 0 .. n}

\* what parseConfig produces: the bare values (config.values is no longer an
\* array when the text holds `values=true`) and the key=value parts
ValuesOverwritten ==
    [values |-> <<>>, iterable |-> FALSE, ability |-> Absent, skill |-> Absent,
     tool |-> Absent, dc |-> Absent, passive |-> Absent]

CheckConfigs ==
    [values : Tuples(ValueTokens, MaxValues), iterable : {TRUE},
     ability : {Absent, "str", "cha"}, skill : {Absent, "ath", "ste"},
     tool : {Absent, "thief", "lute"}, dc : {Absent}, passive : {Absent}]
        \cup {ValuesOverwritten}

SaveConfigs ==
    [values : Tuples(ValueTokens, MaxValues), iterable : {TRUE},
     ability : {Absent, "str", "cha"}, skill : {Absent},
     tool : {Absent}, dc : {Absent, "15", "@abilities.int.dc"}, passive : {Absent}]
        \cup {ValuesOverwritten}

\* `config[value] = true` for a value that names no ability, skill, tool or number
setFlag(config, value) ==
    CASE value = "passive" -> [config EXCEPT !.passive = "true"]
      [] value = "ability" -> [config EXCEPT !.ability = "true"]
      [] value = "skill"   -> [config EXCEPT !.skill = "true"]
      [] value = "tool"    -> [config EXCEPT !.tool = "true"]
      [] value = "dc"      -> [config EXCEPT !.dc = "true"]
      [] OTHER             -> config

\* mutant of checkValues: a skill among the values brings its default
\* ability with it, so the order of ability and skill matters
RECURSIVE checkValuesSkillResets(_, _)
checkValuesSkillResets(config, values) ==
    IF values = <<>> THEN config
    ELSE LET v == Head(values)
             c == IF v \in DOMAIN AbilityLookup THEN [config EXCEPT !.ability = v]
                  ELSE IF v \in DOMAIN SkillLookup
                       THEN [config EXCEPT !.skill = v, !.ability = SkillLookup[v].ability]
                  ELSE IF v \in DOMAIN ToolLookup THEN [config EXCEPT !.tool = v]
                  ELSE IF isNumeric(v) THEN [config EXCEPT !.dc = v]
                  ELSE setFlag(config, v)
         IN  checkValuesSkillResets(c, Tail(values))

\* enrichCheck lines 481-487
RECURSIVE checkValues(_, _)
checkValues(config, values) ==
    IF values = <<>> THEN config
    ELSE LET v == Head(values)
             c == IF v \in DOMAIN AbilityLookup THEN [config EXCEPT !.ability = v]
                  ELSE IF v \in DOMAIN SkillLookup THEN [config EXCEPT !.skill = v]
                  ELSE IF v \in DOMAIN ToolLookup THEN [config EXCEPT !.tool = v]
                  ELSE IF isNumeric(v) THEN [config EXCEPT !.dc = v]
                  ELSE setFlag(config, v)
         IN  checkValues(c, Tail(values))

\* enrichSave lines 646-650
RECURSIVE saveValues(_, _)
saveValues(config, values) ==
    IF values = <<>> THEN config
    ELSE LET v == Head(values)
             c == IF v \in DOMAIN AbilityLookup THEN [config EXCEPT !.ability = v]
                  ELSE IF isNumeric(v) THEN [config EXCEPT !.dc = v]
                  ELSE setFlag(config, v)
         IN  saveValues(c, Tail(values))

Threw(error) == [result |-> error, warned |-> FALSE, ability |-> Absent,
                 skill |-> Absent, tool |-> Absent, type |-> Absent]

enrichCheck(config0, label) ==
    IF ~config0.iterable THEN Threw("TypeError")     \* `for ( const value of config.values )`
    ELSE
    LET config  == checkValues(config0, config0.values)
        hasSkill == config.skill # Absent
        skillOk  == config.skill \in DOMAIN SkillLookup
        badSkill == hasSkill /\ ~skillOk
        ability1 == IF ~badSkill /\ hasSkill /\ config.ability = Absent
                    THEN SkillLookup[config.skill].ability ELSE config.ability
        skill1   == IF skillOk THEN SkillLookup[config.skill].key ELSE config.skill
        toolOk   == /\ config.tool \in DOMAIN ToolLookup
                    /\ ToolLookup[config.tool] \in BaseItemIndex
        badTool  == config.tool # Absent /\ ~toolOk
        abilOk   == ability1 \in DOMAIN AbilityLookup
        \* both branches of lines 508-514 warn and invalidate
        badAbil  == ~abilOk
        ability2 == IF abilOk THEN AbilityLookup[ability1].key ELSE ability1
        invalid  == badSkill \/ badTool \/ badAbil
    IN  IF invalid
        THEN [result |-> "input", warned |-> TRUE, ability |-> ability2,
              skill |-> skill1, tool |-> config.tool, type |-> Absent]
        ELSE IF config.passive # Absent
        THEN [result |-> "passiveTag", warned |-> FALSE, ability |-> ability2,
              skill |-> skill1, tool |-> config.tool, type |-> Absent]
        ELSE [result |-> "link", warned |-> FALSE, ability |-> ability2,
              skill |-> skill1, tool |-> config.tool,
              type |-> IF skill1 # Absent THEN "skill"
                       ELSE IF config.tool # Absent THEN "tool" ELSE "check"]

enrichSave(config0, label) ==
    IF ~config0.iterable THEN Threw("TypeError")
    ELSE
    LET config == saveValues(config0, config0.values)
        abilOk == config.ability \in DOMAIN AbilityLookup
    IN  IF ~abilOk
        THEN [result |-> "input", warned |-> TRUE, ability |-> config.ability,
              skill |-> Absent, tool |-> Absent, type |-> Absent]
        ELSE [result |-> "link", warned |-> FALSE,
              ability |-> AbilityLookup[config.ability].key,
              skill |-> Absent, tool |-> Absent, type |-> "save"]

\* The item references of the doc comment's examples, and others of the same
\* shapes, with what the regular expressions of enrichItem make of them:
\*   uuid   /^Actor\..*?\.Item\..*?$/     rel  /^\.\w{16}$/
\*   id16   /\w{16}$/                     dot  startsWith(".")
ItemRefs ==
    {[text |-> "Heavy Crossbow",
      uuid |-> FALSE, rel |-> FALSE, id16 |-> FALSE, dot |-> FALSE],
     [text |-> "Actor.M4eX4Mu5IHCr3TMf.Item.amUUCouL69OK1GZU",
      uuid |-> TRUE, rel |-> FALSE, id16 |-> TRUE, dot |-> FALSE],
     [text |-> "Actor.Akra (Dragonborn Cleric).Item.Mace",
      uuid |-> TRUE, rel |-> FALSE, id16 |-> FALSE, dot |-> FALSE],
     [text |-> ".amUUCouL69OK1GZU",
      uuid |-> FALSE, rel |-> TRUE, id16 |-> TRUE, dot |-> TRUE],
     [text |-> "amUUCouL69OK1GZU",
      uuid |-> FALSE, rel |-> FALSE, id16 |-> TRUE, dot |-> FALSE],
     [text |-> ".Bite",
      uuid |-> FALSE, rel |-> FALSE, id16 |-> FALSE, dot |-> TRUE]}

\* the world: whether game.actors has the actor the reference names, and
\* whether that actor owns the item
Worlds == [actor : BOOLEAN, item : BOOLEAN]

ItemLink == [result |-> "link", warned |-> FALSE, ability |-> Absent,
             skill |-> Absent, tool |-> Absent, type |-> "item"]
ItemInput == [result |-> "input", warned |-> TRUE, ability |-> Absent,
              skill |-> Absent, tool |-> Absent, type |-> Absent]

\* mutant of enrichItem: `foundActor` is declared and holds no actor
enrichItemDeclared(ref, iterable, world, label) ==
    IF ~iterable THEN Threw("TypeError")
    ELSE IF ref.uuid /\ world.actor
    THEN IF ~world.item THEN ItemInput ELSE ItemLink
    ELSE IF ref.rel \/ ref.id16
    THEN IF ref.rel THEN ItemInput ELSE ItemLink
    ELSE IF ref.dot THEN ItemInput
    ELSE ItemLink

enrichItem(ref, iterable, world, label) ==
    IF ~iterable THEN Threw("TypeError")            \* config.values.join(' ')
    ELSE IF ref.uuid /\ world.actor
    THEN IF ~world.item THEN ItemInput ELSE ItemLink
    ELSE IF ref.rel \/ ref.id16
    THEN Threw("ReferenceError")                    \* `if (foundActor)`: never declared
    ELSE IF ref.dot THEN ItemInput
    ELSE ItemLink

\* ---- enrichDamage

\* CONFIG.DND5E.damageTypes
DamageTypes == {"fire", "force"}

\* the terms a formula is made of, with the dice they roll:
\* `number` dice of `faces` faces of which `keep` are summed, plus `plus`
FormulaTerms == {"2d6", "1d4", "8d4dl", "3"}
termOf(t) ==
    CASE t = "2d6"   -> [number |-> 2, faces |-> 6, keep |-> 2, plus |-> 0]
      [] t = "1d4"   -> [number |-> 1, faces |-> 4, keep |-> 1, plus |-> 0]
      [] t = "8d4dl" -> [number |-> 8, faces |-> 4, keep |-> 7, plus |-> 0]
      [] t = "3"     -> [number |-> 0, faces |-> 0, keep |-> 0, plus |-> 3]

\* a formula (its parts, joined by " ") is terms separated by "+"
wellFormed(parts) ==
    /\ Len(parts) % 2 = 1
    /\ \A i \in DOMAIN parts :
          IF i % 2 = 1 THEN parts[i] \in FormulaTerms ELSE parts[i] = "+"

\* Roll#evaluate({minimize: true}).total: every die shows 1
RECURSIVE minTotal(_)
minTotal(parts) ==
    IF parts = <<>> THEN 0
    ELSE IF Head(parts) = "+" THEN minTotal(Tail(parts))
    ELSE termOf(Head(parts)).keep + termOf(Head(parts)).plus + minTotal(Tail(parts))

\* Roll#evaluate({maximize: true}).total: every die shows its highest face
RECURSIVE maxTotal(_)
maxTotal(parts) ==
    IF parts = <<>> THEN 0
    ELSE IF Head(parts) = "+" THEN maxTotal(Tail(parts))
    ELSE termOf(Head(parts)).keep * termOf(Head(parts)).faces
            + termOf(Head(parts)).plus + maxTotal(Tail(parts))

\* the text after `average=`, and what parseConfig (lines 413-417) stores
\* for it: a boolean, a number, or the string itself
AverageTexts == {Absent, "true", "TRUE", "false", "666", "0", "abc"}
NumberOf(text) == CASE text = "666" -> 666 [] text = "0" -> 0 [] OTHER -> 0
parseAverage(text) ==
    CASE text = Absent              -> [type |-> "undefined", bool |-> FALSE, num |-> 0]
      [] text \in {"true", "TRUE"}  -> [type |-> "boolean", bool |-> TRUE, num |-> 0]
      [] text = "false"             -> [type |-> "boolean", bool |-> FALSE, num |-> 0]
      [] text \in {"666", "0"}      -> [type |-> "number", bool |-> FALSE, num |-> NumberOf(text)]
      [] OTHER                      -> [type |-> "string", bool |-> FALSE, num |-> 0]

\* JavaScript truthiness of the stored average (the strings here are non-empty)
truthy(average) ==
    CASE average.type = "undefined" -> FALSE
      [] average.type = "boolean"   -> average.bool
      [] average.type = "number"    -> average.num # 0
      [] OTHER                      -> TRUE

DamageValueTokens == {"2d6", "1d4", "+", "3", "fire", "average"}

DamageConfigs ==
    [values : Tuples(DamageValueTokens, MaxValues), iterable : BOOLEAN,
     formula : {Absent, "1d4", "8d4dl"}, type : {Absent, "force"},
     average : AverageTexts, label : BOOLEAN]

NoDamageIn == [values |-> <<>>, iterable |-> TRUE, formula |-> Absent,
               type |-> Absent, average |-> Absent, label |-> FALSE]
NoDamageOut == [result |-> "none", formula |-> <<>>, damageType |-> Absent,
                localizationType |-> "none", averageShown |-> FALSE,
                average |-> 0, evaluations |-> 0]

\* lines 584-588, the formula parts among the values
RECURSIVE damageFormulaParts(_)
damageFormulaParts(values) ==
    IF values = <<>> THEN <<>>
    ELSE IF Head(values) \in DamageTypes \/ Head(values) = "average"
    THEN damageFormulaParts(Tail(values))
    ELSE <<Head(values)>> \o damageFormulaParts(Tail(values))

\* lines 584-588, config.type and config.average after the loop
RECURSIVE damageValues(_, _)
damageValues(config, values) ==
    IF values = <<>> THEN config
    ELSE LET v == Head(values)
             c == IF v \in DamageTypes THEN [config EXCEPT !.type = v]
                  ELSE IF v = "average"
                       THEN [config EXCEPT !.average =
                                [type |-> "boolean", bool |-> TRUE, num |-> 0]]
                  ELSE config
         IN  damageValues(c, Tail(values))

\* mutant of averageOf: the mean is rounded up
averageOfCeil(min, max) == (min + max + 1) \div 2

\* line 607: Math.floor((min + max) / 2)
averageOf(min, max) == (min + max) \div 2

\* mutant of averageIsComputed: any truthy average is recomputed
averageIsComputedTruthy(average) == truthy(average)

\* line 604: `config.average === true`
averageIsComputed(average) == average.type = "boolean" /\ average.bool

enrichDamage(config0) ==
    IF ~config0.iterable
    THEN [NoDamageOut EXCEPT !.result = "TypeError"]   \* `for ( const value of config.values )`
    ELSE
    LET parsed  == [type |-> config0.type, average |-> parseAverage(config0.average)]
        config  == damageValues(parsed, config0.values)
        formula == (IF config0.formula # Absent THEN <<config0.formula>> ELSE <<>>)
                      \o damageFormulaParts(config0.values)
        out     == [NoDamageOut EXCEPT !.formula = formula, !.damageType = config.type]
    IN  IF formula = <<>> THEN [out EXCEPT !.result = "null"]
        ELSE IF config0.label THEN [out EXCEPT !.result = "link"]
        ELSE IF ~truthy(config.average)
        THEN [out EXCEPT !.result = "span", !.localizationType = "Short"]
        ELSE IF averageIsComputed(config.average)
        THEN IF wellFormed(formula)
             THEN [out EXCEPT !.result = "span", !.localizationType = "Long",
                              !.averageShown = TRUE, !.evaluations = 2,
                              !.average = averageOf(minTotal(formula), maxTotal(formula))]
             ELSE \* the evaluation of a formula that does not parse rejects
                  [out EXCEPT !.result = "RollError", !.evaluations = 2]
        ELSE IF config.average.type = "number"
        THEN [out EXCEPT !.result = "span", !.localizationType = "Long",
                         !.averageShown = TRUE, !.average = config.average.num]
        ELSE [out EXCEPT !.result = "span", !.localizationType = "Long"]

NoEnrichIn == [type |-> "none", config |-> [values |-> <<>>, iterable |-> TRUE,
                  ability |-> Absent, skill |-> Absent, tool |-> Absent,
                  dc |-> Absent, passive |-> Absent],
               ref |-> [text |-> "", uuid |-> FALSE, rel |-> FALSE, id16 |-> FALSE,
                        dot |-> FALSE],
               world |-> [actor |-> FALSE, item |-> FALSE], label |-> FALSE]
NoEnrichOut == [result |-> "none", warned |-> FALSE, ability |-> Absent,
                skill |-> Absent, tool |-> Absent, type |-> Absent]

\* enrichString dispatching on the link's type
enrichStringCheck(type, config, label) ==
    /\ enrichPc = "idle"
    /\ enrichIn' = [NoEnrichIn EXCEPT !.type = type, !.config = config, !.label = label]
    /\ enrichOut' = enrichCheck(config, label)
    /\ enrichPc' = "done"

enrichStringSave(config, label) ==
    /\ enrichPc = "idle"
    /\ enrichIn' = [NoEnrichIn EXCEPT !.type = "save", !.config = config, !.label = label]
    /\ enrichOut' = enrichSave(config, label)
    /\ enrichPc' = "done"

enrichStringItem(ref, iterable, world, label) ==
    /\ enrichPc = "idle"
    /\ enrichIn' = [NoEnrichIn EXCEPT !.type = "item", !.ref = ref, !.world = world,
                                      !.config.iterable = iterable, !.label = label]
    /\ enrichOut' = enrichItem(ref, iterable, world, label)
    /\ enrichPc' = "done"

enrichStringDamage(config) ==
    /\ enrichPc = "idle"
    /\ enrichIn' = [NoEnrichIn EXCEPT !.type = "damage", !.label = config.label]
    /\ dmgIn' = config
    /\ dmgOut' = enrichDamage(config)
    /\ enrichOut' = [NoEnrichOut EXCEPT !.result = dmgOut'.result]
    /\ enrichPc' = "done"

\* the text editor goes on to the next match
enrichNext ==
    /\ enrichPc = "done"
    /\ enrichPc' = "idle"
    /\ enrichIn' = NoEnrichIn
    /\ enrichOut' = NoEnrichOut
    /\ dmgIn' = NoDamageIn
    /\ dmgOut' = NoDamageOut

InitEnrich ==
    /\ enrichPc = "idle"
    /\ enrichIn = NoEnrichIn
    /\ enrichOut = NoEnrichOut
    /\ dmgIn = NoDamageIn
    /\ dmgOut = NoDamageOut

EnrichCheck ==
    /\ enrichPc = "idle"
    /\ \E type \in {"check", "skill", "tool"}, config \in CheckConfigs :
          enrichStringCheck(type, config, FALSE)
EnrichSave ==
    /\ enrichPc = "idle"
    /\ \E config \in SaveConfigs, label \in BOOLEAN : enrichStringSave(config, label)
EnrichDamage ==
    /\ enrichPc = "idle"
    /\ \E config \in DamageConfigs : enrichStringDamage(config)
EnrichItem ==
    /\ enrichPc = "idle"
    /\ \E ref \in ItemRefs, iterable \in BOOLEAN, world \in Worlds, label \in BOOLEAN :
          enrichStringItem(ref, iterable, world, label)

NextEnrich ==
    \/ EnrichItem /\ UNCHANGED <<rollVars, advVars, dmgIn, dmgOut, actionVars, cycleVars, browserVars, groupVars>>
    \/ EnrichCheck /\ UNCHANGED <<rollVars, advVars, dmgIn, dmgOut, actionVars, cycleVars, browserVars, groupVars>>
    \/ EnrichSave /\ UNCHANGED <<rollVars, advVars, dmgIn, dmgOut, actionVars, cycleVars, browserVars, groupVars>>
    \/ EnrichDamage /\ UNCHANGED <<rollVars, advVars, actionVars, cycleVars, browserVars, groupVars>>
    \/ enrichNext /\ UNCHANGED <<rollVars, advVars, actionVars, cycleVars, browserVars, groupVars>>

-----------------------------------------------------------------------------
(* Roll links: rollAction on a click                                       *)

\* target.dataset.type: the types createRollLink writes, one it does not
\* ("attack"), and a link without a type
LinkTypes == {"check", "save", "skill", "tool", "damage", "item", "attack", Absent}

\* which of rollItemActor / rollRelativeItemId / rollItemName the link carries
ItemMethods == {"uuid", "relative", "name", "none"}

\* where a relative item link sits: on a chat card or sheet of an actor, of
\* a token, or in none of the places rollAction knows
Locations == {"actor", "token", "nowhere"}

\* ChatMessage.getSpeaker(): no token / actor id, or an id that game.actors
\* still has ("known") or no longer has ("stale")
SpeakerRefs == {"none", "known", "stale"}

NoItemLink == [method |-> "none", location |-> "nowhere", owner |-> FALSE,
               scene |-> FALSE, item |-> FALSE]

ItemLinks ==
    {l \in [method : ItemMethods, location : Locations, owner : BOOLEAN,
            scene : BOOLEAN, item : BOOLEAN] :
        /\ l.method # "relative" => l.location = "nowhere"
        /\ l.method = "none" => l = NoItemLink
        /\ l.scene => l.location = "token"}

Clicks ==
    {c \in [link : BOOLEAN, type : LinkTypes, token : SpeakerRefs,
            actor : SpeakerRefs, item : ItemLinks] :
        /\ c.type # "item" => c.item = NoItemLink
        /\ ~c.link => (c.type = Absent /\ c.token = "none" /\ c.actor = "none")}

NoClick == [link |-> FALSE, type |-> Absent, token |-> "none", actor |-> "none",
            item |-> NoItemLink]
NoClickOut == [handled |-> FALSE, warned |-> FALSE, invoked |-> "none", threw |-> FALSE]

\* lines 827-830: the actor that should perform the roll
actorFound(click) == click.token = "known" \/ click.actor = "known"

\* mutant of actorRequired: only ability checks and saves need an actor
actorRequiredAbilityOnly(type) == type \in {"check", "save"}

\* line 831: `type !== "damage" && type !== "item"`
actorRequired(type) == type # "damage" /\ type # "item"

Invoked(method) == [NoClickOut EXCEPT !.handled = TRUE, !.invoked = method]
Warned == [NoClickOut EXCEPT !.handled = TRUE, !.warned = TRUE]
\* a property of undefined is read: the handler ends with a TypeError
ThrewTypeError == [NoClickOut EXCEPT !.handled = TRUE, !.threw = TRUE]

\* dnd5e.documents.macro.rollItem(name): the item of that name on the
\* speaker's actor is used, and a warning is shown when there is none
rollItem(click) ==
    IF actorFound(click) /\ click.item.item THEN Invoked("use") ELSE Warned

\* lines 849-902: case "item"
rollActionItem(click) ==
    LET l == click.item
    IN  CASE l.method = "uuid" ->
               IF l.owner /\ l.item THEN Invoked("use") ELSE ThrewTypeError
          [] l.method = "relative" ->
               IF l.location = "actor"
               THEN IF ~l.owner THEN ThrewTypeError
                    ELSE IF l.item THEN Invoked("use") ELSE Warned
               ELSE IF ~(l.location = "token" /\ l.scene /\ l.owner) THEN ThrewTypeError
                    ELSE IF l.item THEN Invoked("use") ELSE Warned
          [] l.method = "name" -> rollItem(click)
          [] OTHER -> Warned      \* falls through to `default`

\* an actor method called on an actor; on `undefined` it is a TypeError
actorMethod(click, method) ==
    IF actorFound(click) THEN Invoked(method) ELSE ThrewTypeError

rollAction(click) ==
    IF ~click.link THEN NoClickOut                  \* `if ( !target ) return;`
    ELSE IF ~actorFound(click) /\ actorRequired(click.type) THEN Warned
    ELSE CASE click.type = "check"  -> actorMethod(click, "rollAbilityTest")
           [] click.type = "damage" -> Invoked("rollDamage")
           [] click.type = "save"   -> actorMethod(click, "rollAbilitySave")
           [] click.type = "skill"  -> actorMethod(click, "rollSkill")
           [] click.type = "tool"   -> actorMethod(click, "rollToolCheck")
           [] click.type = "item"   -> rollActionItem(click)
           [] OTHER                 -> Warned

\* the click listener on document.body
onClick(click) ==
    /\ clickPc = "idle"
    /\ clickIn' = click
    /\ clickOut' = rollAction(click)
    /\ clickPc' = "done"

clickHandled ==
    /\ clickPc = "done"
    /\ clickPc' = "idle"
    /\ clickIn' = NoClick
    /\ clickOut' = NoClickOut

InitAction ==
    /\ clickPc = "idle"
    /\ clickIn = NoClick
    /\ clickOut = NoClickOut

OnClick == clickPc = "idle" /\ \E click \in Clicks : onClick(click)

NextAction ==
    \/ OnClick /\ UNCHANGED <<rollVars, advVars, enrichVars, cycleVars, browserVars, groupVars>>
    \/ clickHandled /\ UNCHANGED <<rollVars, advVars, enrichVars, cycleVars, browserVars, groupVars>>

-----------------------------------------------------------------------------
(* ProficiencyCycleElement                                                 *)
(* Numbers are written as their decimal text: "0", "0.5", "1", "2", "3",   *)
(* and "NaN".                                                              *)

Numbers == {"0", "0.5", "1", "2", "3", "NaN"}

\* what callers assign and what the value attribute can hold
ValueTexts == {"0", "0.5", "1", "2", "3", "abc"}

\* Number(text)
NumberFrom(text) == IF text \in Numbers THEN text ELSE "NaN"

\* a > b on numbers; false when either is NaN
HalfUnits(n) ==
    CASE n = "0" -> 0 [] n = "0.5" -> 1 [] n = "1" -> 2 [] n = "2" -> 4 [] OTHER -> 6
greaterThan(a, b) == a # "NaN" /\ b # "NaN" /\ HalfUnits(a) > HalfUnits(b)

TypeAttributes == {Absent, "ability", "skill", "tool"}

\* get type(): `this.getAttribute("type") ?? "ability"`
typeOf(el) == IF el.type = Absent THEN "ability" ELSE el.type

\* get validValues()
validValues(el) ==
    IF typeOf(el) = "ability" THEN <<"0", "1">> ELSE <<"0", "1", "0.5", "2">>

includes(array, n) == \E i \in DOMAIN array : array[i] = n

\* Array#indexOf, 0-based, -1 when absent
indexOf(array, n) ==
    IF includes(array, n) THEN (CHOOSE i \in DOMAIN array : array[i] = n) - 1 ELSE -1

NoLast == [op |-> "none", before |-> "0", error |-> "none", changes |-> 0, up |-> FALSE]

\* mutant of setValue: the value is stored before it is validated
setValueUnchecked(el, text) ==
    [el |-> [el EXCEPT !.value = NumberFrom(text)],
     error |-> IF ~includes(validValues(el), NumberFrom(text)) THEN "Error"
               ELSE IF ~el.built THEN "TypeError" ELSE "none"]

\* set value(value): lines 106-111; #refreshValue reads the shadow root's
\* input, which exists once #buildHTML has run
setValue(el, text) ==
    LET n == NumberFrom(text)
    IN  IF ~includes(validValues(el), n) THEN [el |-> el, error |-> "Error"]
        ELSE [el |-> [el EXCEPT !.value = n],
              error |-> IF el.built THEN "none" ELSE "TypeError"]

\* set type(value): lines 78-84
setType(el, t) ==
    IF t \notin {"ability", "skill"} THEN [el |-> el, error |-> "Error"]
    ELSE [el |-> [el EXCEPT !.type = t], error |-> "none"]

\* mutant of stepped: stepping down moves by length - 2 positions
steppedDownShort(el, up) ==
    LET lv   == validValues(el)
        idx  == indexOf(lv, el.value)
        next == lv[((idx + (IF up THEN 1 ELSE Len(lv) - 2)) % Len(lv)) + 1]
        r    == setValue(el, next)
    IN  [el |-> r.el, error |-> r.error, changes |-> IF r.error = "none" THEN 1 ELSE 0]

\* step(up): lines 250-255; the change event is dispatched after the setter
stepped(el, up) ==
    LET lv   == validValues(el)
        idx  == indexOf(lv, el.value)
        next == lv[((idx + (IF up THEN 1 ELSE Len(lv) - 1)) % Len(lv)) + 1]
        r    == setValue(el, next)
    IN  [el |-> r.el, error |-> r.error, changes |-> IF r.error = "none" THEN 1 ELSE 0]

\* how many consecutive steps the history keeps: one full cycle of the
\* longest validValues
MaxSteps == 4

\* the history after one more run of step(up): the value before, the
\* direction, and the change events dispatched
stepsAfter(up) ==
    LET s == Append(pceSteps, [before |-> pce.value, up |-> up,
                               changes |-> stepped(pce, up).changes])
    IN  IF Len(s) > MaxSteps THEN Tail(s) ELSE s

Last(op, el, error, changes, up) ==
    [op |-> op, before |-> el.value, error |-> error, changes |-> changes, up |-> up]

SetValue(text) ==
    /\ pce' = setValue(pce, text).el
    /\ pceLast' = Last("value", pce, setValue(pce, text).error, 0, FALSE)
    /\ pceSteps' = <<>>

SetType(t) ==
    /\ pce' = setType(pce, t).el
    /\ pceLast' = Last("type", pce, setType(pce, t).error, 0, FALSE)
    /\ pceSteps' = <<>>

SetDisabled(b) ==
    /\ pce.disabled # b
    /\ pce' = [pce EXCEPT !.disabled = b]
    /\ pceLast' = Last("disabled", pce, "none", 0, FALSE)
    /\ pceSteps' = <<>>

step(up) ==
    /\ pce' = stepped(pce, up).el
    /\ pceLast' = Last("step", pce, stepped(pce, up).error, stepped(pce, up).changes, up)
    /\ pceSteps' = stepsAfter(up)

\* #onClick for a click (button 0 or 2) or contextmenu event on the element
cycleOnClick(eventType, button) ==
    /\ pce.connected
    /\ LET up == eventType = "click" /\ button # 2
       IN  IF pce.listening /\ ~pce.disabled
           THEN /\ pce' = stepped(pce, up).el
                /\ pceLast' = Last(eventType, pce, stepped(pce, up).error,
                                   stepped(pce, up).changes, up)
                /\ pceSteps' = stepsAfter(up)
           ELSE /\ pce' = pce
                /\ pceLast' = Last(eventType, pce, "none", 0, up)
                /\ pceSteps' = <<>>

\* #onChangeInput for a change event of the inner input
onChangeInput(valueAsNumber) ==
    /\ pce.connected
    /\ LET up == greaterThan(valueAsNumber, pce.value)
       IN  IF pce.listening
           THEN /\ pce' = stepped(pce, up).el
                /\ pceLast' = Last("input", pce, stepped(pce, up).error,
                                   stepped(pce, up).changes, up)
                /\ pceSteps' = stepsAfter(up)
           ELSE /\ pce' = pce
                /\ pceLast' = Last("input", pce, "none", 0, up)
                /\ pceSteps' = <<>>

\* connectedCallback: the listeners are added with the controller's signal;
\* addEventListener adds nothing when the signal is already aborted
connectedCallback ==
    /\ ~pce.connected
    /\ pce' = [pce EXCEPT !.connected = TRUE, !.built = TRUE,
                          !.listening = ~pce.aborted]
    /\ pceLast' = Last("connected", pce, "none", 0, FALSE)
    /\ pceSteps' = <<>>

\* disconnectedCallback: `this.#controller.abort()`
disconnectedCallback ==
    /\ pce.connected
    /\ pce' = [pce EXCEPT !.connected = FALSE, !.aborted = TRUE, !.listening = FALSE]
    /\ pceLast' = Last("disconnected", pce, "none", 0, FALSE)
    /\ pceSteps' = <<>>

\* constructor: `this.#value = Number(this.getAttribute("value") ?? 0)`, with
\* the attributes the element was written with
InitCycle ==
    /\ \E t \in TypeAttributes, text \in ValueTexts \cup {Absent}, d \in BOOLEAN :
          pce = [type |-> t, value |-> IF text = Absent THEN "0" ELSE NumberFrom(text),
                 disabled |-> d, built |-> FALSE, connected |-> FALSE,
                 aborted |-> FALSE, listening |-> FALSE]
    /\ pceLast = NoLast
    /\ pceSteps = <<>>

\* an element nobody touches
QuietCycle ==
    /\ pce = [type |-> Absent, value |-> "0", disabled |-> FALSE, built |-> FALSE,
              connected |-> FALSE, aborted |-> FALSE, listening |-> FALSE]
    /\ pceLast = NoLast
    /\ pceSteps = <<>>

SetValueCall == \E text \in ValueTexts : SetValue(text)
SetTypeCall == \E t \in TypeAttributes \ {Absent} : SetType(t)
SetDisabledCall == \E b \in BOOLEAN : SetDisabled(b)
StepCall == \E up \in BOOLEAN : step(up)
ClickEvent ==
    \E e \in {<<"click", 0>>, <<"click", 2>>, <<"contextmenu", 2>>} :
        cycleOnClick(e[1], e[2])
InputChangeEvent == \E n \in Numbers : onChangeInput(n)

NextCycle ==
    \/ SetValueCall /\ UNCHANGED <<rollVars, advVars, enrichVars, actionVars, browserVars, groupVars>>
    \/ SetTypeCall /\ UNCHANGED <<rollVars, advVars, enrichVars, actionVars, browserVars, groupVars>>
    \/ SetDisabledCall /\ UNCHANGED <<rollVars, advVars, enrichVars, actionVars, browserVars, groupVars>>
    \/ StepCall /\ UNCHANGED <<rollVars, advVars, enrichVars, actionVars, browserVars, groupVars>>
    \/ ClickEvent /\ UNCHANGED <<rollVars, advVars, enrichVars, actionVars, browserVars, groupVars>>
    \/ InputChangeEvent /\ UNCHANGED <<rollVars, advVars, enrichVars, actionVars, browserVars, groupVars>>
    \/ connectedCallback /\ UNCHANGED <<rollVars, advVars, enrichVars, actionVars, browserVars, groupVars>>
    \/ disconnectedCallback /\ UNCHANGED <<rollVars, advVars, enrichVars, actionVars, browserVars, groupVars>>

-----------------------------------------------------------------------------
(* CompendiumBrowser: filter definitions and intersectFilters              *)
(* A CompendiumBrowserFilterDefinition (a Map) is a function from          *)
(* FilterKeys to entries, NoEntry standing for a key the Map lacks.        *)

\* largest bound a range filter is written with
MaxBound == 2

\* `"min" in config` is false
NoBound == -1

FilterKeys == {"level", "properties"}
Choices == {"mgc", "sil"}

NoEntry == [type |-> Absent, keyPath |-> Absent, min |-> NoBound, max |-> NoBound,
            choices |-> {}, multiple |-> FALSE]

RangeEntries ==
    [type : {"range"}, keyPath : {"system.level"},
     min : {NoBound} \cup (0..MaxBound), max : {NoBound} \cup (0..MaxBound),
     choices : {{}}, multiple : {FALSE}]

SetEntries ==
    [type : {"set"}, keyPath : {"system.properties"}, min : {NoBound}, max : {NoBound},
     choices : SUBSET Choices, multiple : {TRUE}]

BooleanEntries ==
    [type : {"boolean"}, keyPath : {"system.attuned"}, min : {NoBound}, max : {NoBound},
     choices : {{}}, multiple : {FALSE}]

\* the Maps the intersection is tried on: every kind of entry under "level",
\* a few under "properties"
FilterDefinitions ==
    {d \in [FilterKeys -> RangeEntries \cup SetEntries \cup BooleanEntries \cup {NoEntry}] :
        d["properties"] \in {NoEntry} \cup BooleanEntries
                            \cup {e \in SetEntries : e.choices = {"mgc"}}}

MathMax(a, b) == IF a >= b THEN a ELSE b
MathMin(a, b) == IF a <= b THEN a ELSE b

\* one pass of the loop body of intersectFilters (lines 540-567) as written
\* on `finalConfig`: whether `final.set` is reached, and finalConfig then
rangeMinClash(firstConfig, secondConfig) ==
    (firstConfig.min # NoBound) # (secondConfig.min # NoBound)
rangeMaxClash(firstConfig, secondConfig) ==
    (firstConfig.max # NoBound) # (secondConfig.max # NoBound)

finalConfigOf(firstConfig, secondConfig) ==
    CASE firstConfig.type = "range" ->
            LET withMin == IF firstConfig.min # NoBound /\ secondConfig.min # NoBound
                           THEN [firstConfig EXCEPT
                                    !.min = MathMax(firstConfig.min, secondConfig.min)]
                           ELSE firstConfig
            IN  IF rangeMinClash(firstConfig, secondConfig) THEN firstConfig
                ELSE IF withMin.max # NoBound /\ secondConfig.max # NoBound
                     THEN [withMin EXCEPT !.max = MathMin(withMin.max, secondConfig.max)]
                     ELSE withMin
      [] firstConfig.type = "set" ->
            [firstConfig EXCEPT !.choices = {k \in firstConfig.choices :
                                    k \in firstConfig.choices /\ k \in secondConfig.choices}]
      [] OTHER -> firstConfig

reachesSet(firstConfig, secondConfig) ==
    /\ firstConfig.type = secondConfig.type
    /\ CASE firstConfig.type = "range" ->
                /\ ~rangeMinClash(firstConfig, secondConfig)
                /\ ~rangeMaxClash(firstConfig, secondConfig)
                /\ LET c == finalConfigOf(firstConfig, secondConfig)
                   IN  ~(c.min # NoBound /\ c.max # NoBound /\ c.min > c.max)
         [] firstConfig.type = "set" ->
                finalConfigOf(firstConfig, secondConfig).choices # {}
         [] OTHER -> TRUE

\* mutant of intersectEntry: finalConfig is firstConfig itself, not a clone
intersectEntryShared(firstConfig, secondConfig) ==
    [kept |-> reachesSet(firstConfig, secondConfig),
     finalConfig |-> finalConfigOf(firstConfig, secondConfig),
     firstConfig |-> IF firstConfig.type = secondConfig.type
                     THEN finalConfigOf(firstConfig, secondConfig) ELSE firstConfig]

\* the loop body for one key: `finalConfig = foundry.utils.deepClone(firstConfig)`
\* is what is written to, so firstConfig is left as it was
intersectEntry(firstConfig, secondConfig) ==
    [kept |-> reachesSet(firstConfig, secondConfig),
     finalConfig |-> finalConfigOf(firstConfig, secondConfig),
     firstConfig |-> firstConfig]

\* CompendiumBrowser.intersectFilters(first, second): the Map returned, and
\* the two arguments after the call
intersectFilters(first, second) ==
    [final |-> [key \in FilterKeys |->
                    IF first[key] # NoEntry /\ intersectEntry(first[key], second[key]).kept
                    THEN intersectEntry(first[key], second[key]).finalConfig
                    ELSE NoEntry],
     first |-> [key \in FilterKeys |->
                    IF first[key] # NoEntry
                    THEN intersectEntry(first[key], second[key]).firstConfig
                    ELSE NoEntry],
     second |-> second]

NoIntersection == [key \in FilterKeys |-> NoEntry]

InitIntersect ==
    /\ ixPc = "idle"
    /\ ixFirst \in FilterDefinitions
    /\ ixSecond \in FilterDefinitions
    /\ ixIn = [first |-> ixFirst, second |-> ixSecond]
    /\ ixOut = NoIntersection

QuietIntersect ==
    /\ ixPc = "idle"
    /\ ixFirst = NoIntersection
    /\ ixSecond = NoIntersection
    /\ ixIn = [first |-> ixFirst, second |-> ixSecond]
    /\ ixOut = NoIntersection

IntersectFilters ==
    /\ ixPc = "idle"
    /\ ixPc' = "done"
    /\ ixOut' = intersectFilters(ixFirst, ixSecond).final
    /\ ixFirst' = intersectFilters(ixFirst, ixSecond).first
    /\ ixSecond' = intersectFilters(ixFirst, ixSecond).second
    /\ UNCHANGED ixIn

intersectionRead ==
    /\ ixPc = "done"
    /\ ixPc' = "idle"
    /\ ixIn' = [first |-> ixFirst, second |-> ixSecond]
    /\ ixOut' = NoIntersection
    /\ UNCHANGED <<ixFirst, ixSecond>>

NextIntersect ==
    \/ IntersectFilters /\ UNCHANGED <<rollVars, advVars, enrichVars, actionVars, cycleVars, fetchVars, appVars, groupVars>>
    \/ intersectionRead /\ UNCHANGED <<rollVars, advVars, enrichVars, actionVars, cycleVars, fetchVars, appVars, groupVars>>

-----------------------------------------------------------------------------
(* CompendiumBrowser.fetch                                                 *)

\* longest filters array a caller passes
MaxFilters == 2

DocumentClasses == {"Item", "Actor"}
DocumentTypes == {"weapon", "spell"}

\* game.packs: per pack its metadata.type, its metadata.flags.dnd5e.types
\* (`flagged` is whether the flag is set) and its index; `container` is
\* Absent for null or undefined
Packs ==
    << [type |-> "Item", flagged |-> FALSE, flagTypes |-> {},
        index |-> << [name |-> "sword", type |-> "weapon", level |-> 0,
                      container |-> Absent, packType |-> "Item"],
                     [name |-> "dagger", type |-> "weapon", level |-> 1,
                      container |-> "bag", packType |-> "Item"],
                     [name |-> "light", type |-> "spell", level |-> 0,
                      container |-> Absent, packType |-> "Item"] >>],
       [type |-> "Item", flagged |-> TRUE, flagTypes |-> {"spell"},
        index |-> << [name |-> "fireball", type |-> "spell", level |-> 2,
                      container |-> Absent, packType |-> "Item"],
                     [name |-> "bless", type |-> "spell", level |-> 1,
                      container |-> Absent, packType |-> "Item"],
                     [name |-> "light", type |-> "spell", level |-> 1,
                      container |-> Absent, packType |-> "Item"] >>],
       [type |-> "Actor", flagged |-> FALSE, flagTypes |-> {},
        index |-> << [name |-> "sword", type |-> "npc", level |-> 1,
                      container |-> Absent, packType |-> "Actor"],
                     [name |-> "bandit", type |-> "npc", level |-> 0,
                      container |-> Absent, packType |-> "Actor"] >>] >>

\* String#localeCompare on the names in use, as their rank
NameRank(name) ==
    CASE name = "bandit" -> 1 [] name = "bless" -> 2 [] name = "dagger" -> 3
      [] name = "fireball" -> 4 [] name = "light" -> 5 [] OTHER -> 6

\* FilterDescription: `n` is the number of a gte / lte filter, `vs` the
\* array of an in filter
FilterDescriptions ==
    { [k |-> "system.level", o |-> "gte", n |-> 1, vs |-> {}],
      [k |-> "system.level", o |-> "lte", n |-> 1, vs |-> {}],
      [k |-> "system.container", o |-> "in", n |-> 0, vs |-> {"bag"}] }

\* `{ k: "system.container", o: "in", v: [null, undefined] }`
containerFilter == [k |-> "system.container", o |-> "in", n |-> 0, vs |-> {Absent}]

FilterArrays == UNION {[1..len -> FilterDescriptions] : len \in 0..MaxFilters}

\* Filter.performCheck for one description
checkOne(i, filter) ==
    CASE filter.o = "gte" -> i.level >= filter.n
      [] filter.o = "lte" -> i.level <= filter.n
      [] OTHER -> i.container \in filter.vs

\* Filter.performCheck(i, filters): every description holds
performCheck(i, filters) == \A j \in DOMAIN filters : checkOne(i, filters[j])

RECURSIVE flat(_)
flat(arrays) == IF arrays = <<>> THEN <<>> ELSE Head(arrays) \o flat(Tail(arrays))

\* Array#sort with the default comparison of names; the sort is stable
RECURSIVE insertByName(_, _)
insertByName(sorted, d) ==
    IF sorted = <<>> THEN <<d>>
    ELSE IF NameRank(Head(sorted).name) <= NameRank(d.name)
         THEN <<Head(sorted)>> \o insertByName(Tail(sorted), d)
         ELSE <<d>> \o sorted

RECURSIVE sortByName(_)
sortByName(documents) ==
    IF documents = <<>> THEN <<>>
    ELSE insertByName(sortByName(SubSeq(documents, 1, Len(documents) - 1)),
                      documents[Len(documents)])

\* `filters.push(...)` (line 418): the caller's array after the call
pushed(filters) == Append(filters, containerFilter)

\* lines 424-455: the documents returned
fetched(documentClass, types, filters, sort) ==
    LET all == Append(filters, containerFilter)
        packs == SelectSeq(Packs, LAMBDA p :
                    /\ p.type = documentClass
                    /\ (types = {} \/ ~p.flagged \/ p.flagTypes \cap types # {}))
        documents == flat([j \in DOMAIN packs |->
                        SelectSeq(packs[j].index, LAMBDA i :
                            /\ (types = {} \/ i.type \in types)
                            /\ (Len(all) = 0 \/ performCheck(i, all)))])
    IN  IF sort THEN sortByName(documents) ELSE documents

NoFetchArgs == [documentClass |-> "Item", types |-> {}, sort |-> TRUE]

InitFetch ==
    /\ fPc = "idle"
    /\ fArgs \in [documentClass : DocumentClasses, types : SUBSET DocumentTypes,
                  sort : BOOLEAN]
    /\ fFilters \in FilterArrays
    /\ fIn = fFilters
    /\ fOut = <<>>

QuietFetch ==
    /\ fPc = "idle"
    /\ fArgs = NoFetchArgs
    /\ fFilters = <<>>
    /\ fIn = fFilters
    /\ fOut = <<>>

\* CompendiumBrowser.fetch(documentClass, {types, filters, sort})
Fetch ==
    /\ fPc = "idle"
    /\ fPc' = "done"
    /\ fOut' = fetched(fArgs.documentClass, fArgs.types, fFilters, fArgs.sort)
    /\ fFilters' = pushed(fFilters)
    /\ UNCHANGED <<fArgs, fIn>>

NextFetch ==
    \/ Fetch /\ UNCHANGED <<rollVars, advVars, enrichVars, actionVars, cycleVars, intersectVars, appVars, groupVars>>

-----------------------------------------------------------------------------
(* CompendiumBrowser: the application                                      *)
(* An `additional` object is a set of <<path, value>> pairs, a path being  *)
(* <<key, field>>: {level: {min: "1"}} is {<< <<"level", "min">>, "1" >>}.  *)
(* A Set of types is the sequence of its members in insertion order.       *)

\* renders of the results part the model follows
MaxRenders == 3

\* CONFIG[documentClass].dataModels in their order, each with its
\* compendiumBrowserFilters
DataModels(documentClass) ==
    IF documentClass = "Actor"
    THEN << [type |-> "npc",
             filters |-> [key \in FilterKeys |->
                IF key = "level"
                THEN [type |-> "range", keyPath |-> "system.details.cr", min |-> 0,
                      max |-> MaxBound, choices |-> {}, multiple |-> FALSE]
                ELSE NoEntry]] >>
    ELSE << [type |-> "weapon",
             filters |-> [key \in FilterKeys |->
                IF key = "properties"
                THEN [type |-> "set", keyPath |-> "system.properties", min |-> NoBound,
                      max |-> NoBound, choices |-> {"mgc", "sil"}, multiple |-> TRUE]
                ELSE NoEntry]],
            [type |-> "spell",
             filters |-> [key \in FilterKeys |->
                IF key = "properties"
                THEN [type |-> "set", keyPath |-> "system.properties", min |-> NoBound,
                      max |-> NoBound, choices |-> {"mgc"}, multiple |-> TRUE]
                ELSE [type |-> "range", keyPath |-> "system.level", min |-> 0,
                      max |-> MaxBound, choices |-> {}, multiple |-> FALSE]]] >>

TypesOf(documentClass) ==
    {DataModels(documentClass)[j].type : j \in DOMAIN DataModels(documentClass)}

\* dataModels[type]?.compendiumBrowserFilters ?? new Map()
filtersOfType(documentClass, type) ==
    LET dm == DataModels(documentClass)
    IN  IF \E j \in DOMAIN dm : dm[j].type = type
        THEN dm[CHOOSE j \in DOMAIN dm : dm[j].type = type].filters
        ELSE NoIntersection

\* the fields a user sets through inputs named additional.<key>.<field>
AdditionalPaths == {<<"level", "min">>, <<"properties", "mgc">>}
UserValues(path) == IF path[1] = "level" THEN {"", "2"} ELSE {"", "1", "-1"}

\* options.filters.locked: which keys it has, and their values
NothingLocked ==
    [documentClass |-> Absent, typesLocked |-> FALSE, types |-> <<>>, additional |-> {}]
LockedOptions ==
    { NothingLocked,
      [documentClass |-> "Item", typesLocked |-> TRUE, types |-> <<"spell">>,
       additional |-> {}],
      [documentClass |-> Absent, typesLocked |-> FALSE, types |-> <<>>,
       additional |-> {<< <<"level", "min">>, "1" >>}] }

\* mutant of currentFilters: the merge is made in place
currentFiltersInPlace(stored, locked) ==
    LET merged == [documentClass |-> IF locked.documentClass # Absent
                                     THEN locked.documentClass ELSE stored.documentClass,
                   types |-> IF locked.typesLocked THEN locked.types ELSE stored.types,
                   additional |-> mergeObject(stored.additional, locked.additional)]
        filters == [merged EXCEPT !.documentClass =
                        IF merged.documentClass = Absent THEN "Item" ELSE @]
    IN  [filters |-> filters, stored |-> filters]

\* get currentFilters (lines 124-132): the object returned, and #filters
\* after the read
currentFilters(stored, locked) ==
    LET merged == [documentClass |-> IF locked.documentClass # Absent
                                     THEN locked.documentClass ELSE stored.documentClass,
                   types |-> IF locked.typesLocked THEN locked.types ELSE stored.types,
                   additional |-> mergeObject(stored.additional, locked.additional)]
        filters == [merged EXCEPT !.documentClass =
                        IF merged.documentClass = Absent THEN "Item" ELSE @]
    IN  [filters |-> filters, stored |-> stored]

\* values?.[key]?.[field], Absent for undefined
valueAt(values, key, field) ==
    IF \E p \in values : p[1] = <<key, field>>
    THEN (CHOOSE p \in values : p[1] = <<key, field>>)[2]
    ELSE Absent

\* Number.isFinite(Number(value)) and the number
isFiniteNumber(value) == value \in {"0", "1", "2"}
toNumber(value) == CASE value = "0" -> 0 [] value = "1" -> 1 [] OTHER -> 2

\* the filters applyFilters pushes for one key of `values`
filtersForKey(def, values, key) ==
    CASE def.type = "range" ->
            (IF isFiniteNumber(valueAt(values, key, "min"))
             THEN << [k |-> def.keyPath, o |-> "gte",
                      n |-> toNumber(valueAt(values, key, "min")), vs |-> {}] >>
             ELSE <<>>)
            \o (IF isFiniteNumber(valueAt(values, key, "max"))
                THEN << [k |-> def.keyPath, o |-> "lte",
                         n |-> toNumber(valueAt(values, key, "max")), vs |-> {}] >>
                ELSE <<>>)
      [] def.type = "set" ->
            LET positive == {c \in Choices : valueAt(values, key, c) = "1"}
                negative == {c \in Choices : valueAt(values, key, c) = "-1"}
            IN  (IF positive # {}
                 THEN << [k |-> def.keyPath,
                          o |-> IF def.multiple THEN "hasAll" ELSE "in",
                          n |-> 0, vs |-> positive] >>
                 ELSE <<>>)
                \o (IF negative # {}
                    THEN << [k |-> def.keyPath,
                             o |-> IF def.multiple THEN "NOT hasAny" ELSE "NOT in",
                             n |-> 0, vs |-> negative] >>
                    ELSE <<>>)
      [] OTHER -> <<>>

\* CompendiumBrowser.applyFilters(definition, values)
applyFilters(definition, values) ==
    LET keys == {p[1][1] : p \in values}
        forKey(key) == IF key \in keys /\ definition[key] # NoEntry
                       THEN filtersForKey(definition[key], values, key) ELSE <<>>
    IN  forKey("level") \o forKey("properties")

\* the reduce of lines 205-210 over the Maps of the data models
RECURSIVE reduceFilters(_, _)
reduceFilters(first, maps) ==
    IF maps = <<>> THEN first
    ELSE reduceFilters(intersectFilters(first, Head(maps)).final, Tail(maps))

\* _prepareSidebarContext for the part "filters": context.additional
sidebarAdditional(filters) ==
    LET all    == DataModels(filters.documentClass)
        chosen == IF Len(filters.types) > 0
                  THEN SelectSeq(all, LAMBDA d : \E j \in DOMAIN filters.types :
                                                    filters.types[j] = d.type)
                  ELSE all
        maps   == [j \in DOMAIN chosen |-> chosen[j].filters]
    IN  IF maps = <<>> THEN NoIntersection ELSE reduceFilters(Head(maps), Tail(maps))

\* _prepareResultsContext, lines 233-234: the definitions of the first type
resultsDefinitions(filters) ==
    IF Len(filters.types) = 0 THEN NoIntersection
    ELSE filtersOfType(filters.documentClass, filters.types[1])

\* the arguments of the fetch that _prepareResultsContext starts
fetchArguments(filters) ==
    [documentClass |-> filters.documentClass,
     types |-> {filters.types[j] : j \in DOMAIN filters.types},
     filters |-> applyFilters(resultsDefinitions(filters), filters.additional)]

NoFetch == [documentClass |-> Absent, types |-> {}, filters |-> <<>>]
NoBrowserLast == [op |-> "none", stored |-> NothingLocked]

\* Set#add and Set#delete on a Set kept in insertion order
setAdd(set, member) ==
    IF \E j \in DOMAIN set : set[j] = member THEN set ELSE Append(set, member)
setDelete(set, member) == SelectSeq(set, LAMBDA m : m # member)

\* this.render({ parts }) after a handler left #filters as `stored`: the
\* sidebar part "filters" when asked for, and the results part, whose fetch
\* is started and awaited by _renderResults
render(op, stored, withSidebar) ==
    LET read == currentFilters(stored, bLocked)
    IN  /\ bRenders < MaxRenders
        /\ bRenders' = bRenders + 1
        /\ bFilters' = read.stored
        /\ bCurrent' = read.filters
        /\ bSidebar' = IF withSidebar THEN sidebarAdditional(read.filters) ELSE bSidebar
        /\ bFetch' = fetchArguments(read.filters)
        /\ bPending' = bPending \cup {fetchArguments(read.filters)}
        /\ bLast' = [op |-> op, stored |-> stored]
        /\ UNCHANGED <<bLocked, bRows>>

\* the first render of the application: every part
Render == bLast.op = "none" /\ render("render", bFilters, TRUE)

\* #onSetFilter for the document class buttons
onSetFilterClass(value) ==
    /\ bLast.op # "none"
    /\ value # bFilters.documentClass
    /\ render("setFilter",
              [documentClass |-> IF value = "" THEN Absent ELSE value,
               types |-> <<>>, additional |-> {}], TRUE)

\* #onSetFilter for an input named additional.<key>.<field>
onSetFilterAdditional(path, value) ==
    /\ bLast.op # "none"
    /\ value # valueAt(bFilters.additional, path[1], path[2])
    /\ render("setFilter",
              [bFilters EXCEPT !.additional =
                    {p \in @ : p[1] # path}
                        \cup (IF value = "" THEN {} ELSE {<<path, value>>})],
              FALSE)

\* #onSetType for the checkbox of one type
onSetType(type, checked) ==
    /\ bLast.op # "none"
    /\ checked = ~(\E j \in DOMAIN bFilters.types : bFilters.types[j] = type)
    /\ render("setType",
              [bFilters EXCEPT !.types = IF checked THEN setAdd(@, type)
                                         ELSE setDelete(@, type)],
              TRUE)

\* #onSetType for the checkbox of a group: every type under it
RECURSIVE addAll(_, _)
addAll(set, members) ==
    IF members = <<>> THEN set ELSE addAll(setAdd(set, Head(members)), Tail(members))

onSetTypeGroup(checked) ==
    LET dm == DataModels(bCurrent.documentClass)
        children == [j \in DOMAIN dm |-> dm[j].type]
    IN  /\ bLast.op # "none"
        /\ render("setTypeGroup",
                  [bFilters EXCEPT !.types =
                        IF checked THEN addAll(@, children)
                        ELSE SelectSeq(@, LAMBDA m : m \notin TypesOf(bCurrent.documentClass))],
                  TRUE)

\* _renderResults past its awaits: the rows of one fetch replace the table's
renderResults(fetch) ==
    /\ fetch \in bPending
    /\ bPending' = bPending \ {fetch}
    /\ bRows' = fetch
    /\ UNCHANGED <<bFilters, bLocked, bCurrent, bSidebar, bFetch, bRenders, bLast>>

\* constructor: `this.#filters = this.options.filters?.initial ?? {}`
InitApp ==
    /\ bLocked \in LockedOptions
    /\ bFilters \in [documentClass : DocumentClasses, types : {<<>>}, additional : {{}}]
    /\ bCurrent = [documentClass |-> "Item", types |-> <<>>, additional |-> {}]
    /\ bSidebar = NoIntersection
    /\ bFetch = NoFetch
    /\ bPending = {}
    /\ bRows = NoFetch
    /\ bRenders = 0
    /\ bLast = NoBrowserLast

QuietApp ==
    /\ bLocked = NothingLocked
    /\ bFilters = [documentClass |-> "Item", types |-> <<>>, additional |-> {}]
    /\ bCurrent = [documentClass |-> "Item", types |-> <<>>, additional |-> {}]
    /\ bSidebar = NoIntersection
    /\ bFetch = NoFetch
    /\ bPending = {}
    /\ bRows = NoFetch
    /\ bRenders = 0
    /\ bLast = NoBrowserLast

OnSetFilterClass == \E value \in DocumentClasses \cup {""} : onSetFilterClass(value)
OnSetFilterAdditional ==
    \E path \in AdditionalPaths : \E value \in UserValues(path) :
        onSetFilterAdditional(path, value)
OnSetType ==
    \E type \in TypesOf(bCurrent.documentClass), checked \in BOOLEAN :
        onSetType(type, checked)
OnSetTypeGroup == \E checked \in BOOLEAN : onSetTypeGroup(checked)
RenderResults == \E fetch \in bPending : renderResults(fetch)

NextApp ==
    \/ Render /\ UNCHANGED <<rollVars, advVars, enrichVars, actionVars, cycleVars, intersectVars, fetchVars, groupVars>>
    \/ OnSetFilterClass /\ UNCHANGED <<rollVars, advVars, enrichVars, actionVars, cycleVars, intersectVars, fetchVars, groupVars>>
    \/ OnSetFilterAdditional /\ UNCHANGED <<rollVars, advVars, enrichVars, actionVars, cycleVars, intersectVars, fetchVars, groupVars>>
    \/ OnSetType /\ UNCHANGED <<rollVars, advVars, enrichVars, actionVars, cycleVars, intersectVars, fetchVars, groupVars>>
    \/ OnSetTypeGroup /\ UNCHANGED <<rollVars, advVars, enrichVars, actionVars, cycleVars, intersectVars, fetchVars, groupVars>>
    \/ RenderResults /\ UNCHANGED <<rollVars, advVars, enrichVars, actionVars, cycleVars, intersectVars, fetchVars, groupVars>>

-----------------------------------------------------------------------------
(* GroupActorSheet: the sheet of one group actor and the apps registries   *)
(* of the actors of the world                                              *)

\* actors of the world that can be members of the group
MaxActors == 3

GroupActors == 1..MaxActors

\* GroupData#addMember, as _onDropActor uses it: the actor joins
\* system.members
addMember(members, actor) == members \cup {actor}

\* GroupData#removeMember, as the removeMember button uses it
removeMember(members, actorId) == members \ {actorId}

\* the loop of _render (lines 172-174): `member.apps[this.id] = this`
registered(apps, members) == apps \cup members

\* the loop of close (lines 182-184): `delete member.apps[this.id]`
unregistered(apps, members) == apps \ members

\* _render(force): render(true) opens the sheet
sheetRender ==
    /\ gApps' = registered(gApps, gMembers)
    /\ gOpen' = TRUE
    /\ gLast' = "render"
    /\ UNCHANGED <<gMembers, gEditable>>

\* close()
sheetClose ==
    /\ gApps' = unregistered(gApps, gMembers)
    /\ gOpen' = FALSE
    /\ gLast' = "close"
    /\ UNCHANGED <<gMembers, gEditable>>

\* _onDropActor on the open sheet; the group's update renders the sheet
\* again
onDropActor(sourceActor) ==
    /\ gOpen
    /\ IF gEditable
       THEN /\ gMembers' = addMember(gMembers, sourceActor)
            /\ gApps' = registered(gApps, addMember(gMembers, sourceActor))
       ELSE UNCHANGED <<gMembers, gApps>>
    /\ gLast' = "addMember"
    /\ UNCHANGED <<gOpen, gEditable>>

\* #onClickActionButton, case "removeMember", on a member's list entry; the
\* group's update renders the sheet again
onClickRemoveMember(removeMemberId) ==
    /\ gOpen
    /\ removeMemberId \in gMembers
    /\ gMembers' = removeMember(gMembers, removeMemberId)
    /\ gApps' = registered(gApps, removeMember(gMembers, removeMemberId))
    /\ gLast' = "removeMember"
    /\ UNCHANGED <<gOpen, gEditable>>

InitGroup ==
    /\ gMembers \in SUBSET GroupActors
    /\ gApps = {}
    /\ gOpen = FALSE
    /\ gEditable \in BOOLEAN
    /\ gLast = "none"

QuietGroup ==
    /\ gMembers = {}
    /\ gApps = {}
    /\ gOpen = FALSE
    /\ gEditable = TRUE
    /\ gLast = "none"

OnDropActor == \E sourceActor \in GroupActors : onDropActor(sourceActor)
OnClickRemoveMember == \E removeMemberId \in GroupActors : onClickRemoveMember(removeMemberId)

NextGroup ==
    \/ sheetRender /\ UNCHANGED <<rollVars, advVars, enrichVars, actionVars, cycleVars, browserVars>>
    \/ sheetClose /\ UNCHANGED <<rollVars, advVars, enrichVars, actionVars, cycleVars, browserVars>>
    \/ OnDropActor /\ UNCHANGED <<rollVars, advVars, enrichVars, actionVars, cycleVars, browserVars>>
    \/ OnClickRemoveMember /\ UNCHANGED <<rollVars, advVars, enrichVars, actionVars, cycleVars, browserVars>>

-----------------------------------------------------------------------------
(* Specifications: one per component, the others at rest                   *)

QuietBrowser == QuietIntersect /\ QuietFetch /\ QuietApp

InitForRoll == InitRoll /\ QuietAdv /\ InitEnrich /\ InitAction /\ QuietCycle /\ QuietBrowser /\ QuietGroup

SpecRoll == InitForRoll /\ [][NextRoll]_vars

InitForAdv == InitAdv /\ InitRoll /\ InitEnrich /\ InitAction /\ QuietCycle /\ QuietBrowser /\ QuietGroup

SpecAdv == InitForAdv /\ [][NextAdv]_vars

InitForEnrich == InitEnrich /\ InitRoll /\ QuietAdv /\ InitAction /\ QuietCycle /\ QuietBrowser /\ QuietGroup

SpecEnrich == InitForEnrich /\ [][NextEnrich]_vars

InitForGather == QuietAdv /\ InitRoll /\ InitEnrich /\ InitAction /\ QuietCycle /\ QuietBrowser /\ QuietGroup

SpecGather == InitForGather /\ [][NextGather]_vars

InitForSource == InitSource /\ InitRoll /\ InitEnrich /\ InitAction /\ QuietCycle /\ QuietBrowser /\ QuietGroup

InitForAction == InitAction /\ InitRoll /\ QuietAdv /\ InitEnrich /\ QuietCycle /\ QuietBrowser /\ QuietGroup

SpecAction == InitForAction /\ [][NextAction]_vars

SpecSource == InitForSource /\ [][NextSource]_vars

InitForCycle == InitCycle /\ InitRoll /\ QuietAdv /\ InitEnrich /\ InitAction /\ QuietBrowser /\ QuietGroup

SpecCycle == InitForCycle /\ [][NextCycle]_vars

InitForIntersect ==
    InitIntersect /\ InitRoll /\ QuietAdv /\ InitEnrich /\ InitAction /\ QuietCycle
        /\ QuietFetch /\ QuietApp /\ QuietGroup

SpecIntersect == InitForIntersect /\ [][NextIntersect]_vars

InitForFetch ==
    InitFetch /\ InitRoll /\ QuietAdv /\ InitEnrich /\ InitAction /\ QuietCycle
        /\ QuietIntersect /\ QuietApp /\ QuietGroup

SpecFetch == InitForFetch /\ [][NextFetch]_vars

InitForApp ==
    InitApp /\ InitRoll /\ QuietAdv /\ InitEnrich /\ InitAction /\ QuietCycle
        /\ QuietIntersect /\ QuietFetch /\ QuietGroup

SpecApp == InitForApp /\ [][NextApp]_vars

InitForGroup ==
    InitGroup /\ InitRoll /\ QuietAdv /\ InitEnrich /\ InitAction /\ QuietCycle
        /\ QuietBrowser

SpecGroup == InitForGroup /\ [][NextGroup]_vars

Init == InitRoll /\ InitAdv /\ InitEnrich /\ InitAction /\ InitCycle /\ InitIntersect
            /\ InitFetch /\ InitApp /\ InitGroup

Next == NextRoll \/ NextAdv \/ NextGather \/ NextSource \/ NextEnrich \/ NextAction
            \/ NextCycle \/ NextIntersect \/ NextFetch \/ NextApp
            \/ NextGroup

Spec == Init /\ [][Next]_vars

-----------------------------------------------------------------------------
(* Properties of the roll workflow                                         *)

\* The mode as _determineAdvantageMode resolved it is what the roll holds
\* until the dialog's button replaces it.
ModeAsResolved == roll.kind = "d20" /\ roll.dialog # "submitted"

HeldD20 == d20Keys(rollCfg.event)
HeldDamage == damageKeys(rollCfg.event)

C2_ExplicitBeatsKeys ==
    /\ (ModeAsResolved /\ rollCfg.advantage = T /\ rollCfg.disadvantage # T)
          => roll.advantageMode = "ADVANTAGE"
    /\ (ModeAsResolved /\ rollCfg.disadvantage = T /\ rollCfg.advantage # T)
          => roll.advantageMode = "DISADVANTAGE"

\* C2 amended: explicit advantage=true (alone) always resolves to ADVANTAGE;
\* explicit disadvantage=true (alone) resolves to DISADVANTAGE unless the
\* advantage binding is held, and then to ADVANTAGE.
C2_ExplicitUnlessAdvantageKey ==
    /\ (ModeAsResolved /\ rollCfg.advantage = T /\ rollCfg.disadvantage # T)
          => roll.advantageMode = "ADVANTAGE"
    /\ (ModeAsResolved /\ rollCfg.disadvantage = T /\ rollCfg.advantage # T)
          => roll.advantageMode =
                (IF HeldD20.advantage THEN "ADVANTAGE" ELSE "DISADVANTAGE")

C2_Witness ==
    /\ ModeAsResolved
    /\ rollCfg.disadvantage = T /\ rollCfg.advantage # T
    /\ HeldD20.advantage
    /\ roll.advantageMode = "ADVANTAGE"

\* C3: a d20Roll with advantage=true and disadvantage=true fails with
\* InvalidConfiguration: no mode is resolved and no roll is constructed,
\* evaluated or posted.
C3_BothFlagsRejected ==
    (rollCfg.kind = "d20" /\ rollCfg.advantage = T /\ rollCfg.disadvantage = T)
        => /\ roll = NoRoll
           /\ rollResult # "roll"

\* C4: when allowCritical=false the DamageRoll that is constructed and
\* evaluated has critical=false.
C4_CriticalOnlyIfAllowed ==
    (roll.kind = "damage" /\ rollCfg.allowCritical = F /\ roll.evaluated)
        => ~roll.critical

\* C5: a dismissed dialog makes the roll function return null with the roll
\* neither evaluated nor posted, null is returned in no other case, and
\* every roll that is returned has been evaluated.
C5_CancelledDistinct ==
    /\ roll.dialog = "dismissed"
          => /\ rollPc = "returned" /\ rollResult = "null"
             /\ ~roll.evaluated /\ ~roll.posted
    /\ rollResult = "null" => roll.dialog = "dismissed"
    /\ rollResult = "roll" => roll.evaluated
    /\ rollPc = "returned" => rollResult \in {"null", "roll"}

C5_Witness ==
    /\ rollPc = "returned" /\ rollResult = "null"
    /\ roll.dialog = "dismissed" /\ ~roll.evaluated

\* Fast-forward is requested by fastForward=true, or, with no explicit flag,
\* by a held fast-forward binding of the roll's kind.
FastForwardRequested ==
    \/ rollCfg.fastForward = T
    \/ /\ rollCfg.fastForward = U
       /\ \/ /\ rollCfg.kind = "d20"
             /\ (HeldD20.normal \/ HeldD20.advantage \/ HeldD20.disadvantage)
          \/ /\ rollCfg.kind = "damage"
             /\ (HeldDamage.normal \/ HeldDamage.critical)

\* C6: the configuration dialog is presented exactly when fast-forward is not
\* requested: never opened on fast-forward, always opened (and answered)
\* before the evaluation otherwise.
C6_DialogIffNotFastForward ==
    roll.kind # "none" =>
        /\ FastForwardRequested => roll.dialog = "none"
        /\ ~FastForwardRequested => roll.dialog # "none"
        /\ (~FastForwardRequested /\ rollPc \in {"evaluating", "posting"})
              => roll.dialog = "submitted"
        /\ (~FastForwardRequested /\ roll.evaluated) => roll.dialog = "submitted"

C6_Witness ==
    /\ roll.kind = "damage" /\ roll.evaluated
    /\ rollCfg.fastForward = F /\ HeldDamage.critical
    /\ roll.dialog = "submitted"

\* C15 as stated: d20Roll and damageRoll never perform the chat posting
\* (roll.toMessage) themselves, whatever the configuration.
C15_NeverPosts == rollPc # "posting" /\ ~roll.posted

\* C16 as stated: the roll functions never modify the data object the caller
\* passed.
C16_DataUntouched == callerData \in DataObjects

\* isFF as the roll function acted on it: no dialog was opened
IsFF == roll.dialog = "none"

\* the mode the explicit advantage / disadvantage flags alone would give
ExplicitMode ==
    IF rollCfg.advantage = T THEN "ADVANTAGE"
    ELSE IF rollCfg.disadvantage = T THEN "DISADVANTAGE"
    ELSE "NORMAL"

\* C17 as stated: with fastForward passed explicitly, isFF, advantageMode and
\* isCritical do not depend on the held keys; with fastForward absent, isFF
\* holds iff a fast-forward binding is pressed.
C17_KeysOnlyWithoutFlag ==
    /\ (roll.kind # "none" /\ rollCfg.fastForward # U)
          => (IsFF <=> rollCfg.fastForward = T)
    /\ (ModeAsResolved /\ rollCfg.fastForward # U)
          => roll.advantageMode = ExplicitMode
    /\ (roll.kind = "damage" /\ rollCfg.fastForward = T /\ ~roll.evaluated)
          => (roll.critical <=> rollCfg.critical = T)
    /\ (roll.kind # "none" /\ rollCfg.fastForward = U)
          => (IsFF <=> FastForwardRequested)

\* C17 amended: with fastForward passed explicitly only isFF is independent of
\* the held keys (it is the flag); advantageMode and isCritical are still
\* or-ed with the held advantage / disadvantage / critical bindings. With
\* fastForward absent, isFF holds iff a fast-forward binding is pressed.
C17_OnlyIsFFIgnoresKeys ==
    /\ (roll.kind # "none" /\ rollCfg.fastForward # U)
          => (IsFF <=> rollCfg.fastForward = T)
    /\ (roll.kind # "none" /\ rollCfg.fastForward = U)
          => (IsFF <=> FastForwardRequested)
    /\ ModeAsResolved
          => roll.advantageMode =
                (IF rollCfg.advantage = T \/ HeldD20.advantage THEN "ADVANTAGE"
                 ELSE IF rollCfg.disadvantage = T \/ HeldD20.disadvantage
                      THEN "DISADVANTAGE"
                 ELSE "NORMAL")
    /\ (roll.kind = "damage" /\ IsFF)
          => (roll.critical <=> (rollCfg.critical = T \/ HeldDamage.critical))

C17_Witness ==
    /\ roll.kind = "damage" /\ roll.evaluated
    /\ rollCfg.fastForward = T /\ rollCfg.critical = U
    /\ HeldDamage.critical /\ HeldDamage.normal
    /\ roll.critical /\ IsFF

-----------------------------------------------------------------------------
(* Properties of the advancement engine                                    *)

\* C7: applying a node's updates for a level and reversing them right away
\* leaves the character (properties, items) and the node's stored value
\* equal to the pre-apply snapshot.
C7_ApplyReverseRestores ==
    advTrail.phase = "reversed" =>
        /\ actorProps = advTrail.props
        /\ actorItems = advTrail.items
        /\ advData[advTrail.id].value = advTrail.value

\* C8: when the creation of a requested item fails, the node's value for the
\* level is not stored, the node is not recorded as applied, and what was
\* written for the level is rolled back when the failure is surfaced.
C8_AllOrNothing ==
    /\ advError =>
          /\ advTrail.phase = "failed"
          /\ advData[advTrail.id].value = advTrail.value
          /\ advTrail.id \notin applied
          /\ actorItems = advTrail.items
          /\ actorProps = advTrail.props
    /\ advPc = "creating" =>
          /\ advData[advCur.id].value = advTrail.value
          /\ advCur.id \notin applied

C8_Witness ==
    /\ advError
    /\ advTrail.failed = {"i2"}
    /\ advTrail.id = "a2"
    /\ advPc = "idle"

GatherAgrees ==
    advProbe.level # 0 =>
        /\ propertyUpdates(advProbe.level, advProbe.updates, advProbe.reverse)
              = advProbe.props
        /\ itemUpdates(advProbe.level, advProbe.updates, advProbe.reverse)
              = advProbe.items

C19_UpdateSourceLocal ==
    srcTrail.id # "none" =>
        /\ Len(advSource) = Len(srcTrail.before)
        /\ \A i \in 1 .. Len(advSource) :
              /\ advSource[i]._id = srcTrail.before[i]._id
              /\ srcTrail.before[i]._id # srcTrail.id
                    => advSource[i] = srcTrail.before[i]
              /\ (srcTrail.before[i]._id = srcTrail.id /\ ~srcTrail.threw)
                    => advSource[i] = mergeData(srcTrail.before[i], srcTrail.updates)
        /\ srcTrail.threw <=> (\A i \in 1 .. Len(advSource) : advSource[i]._id # srcTrail.id)

C19_Witness ==
    /\ srcTrail.id = "a2" /\ ~srcTrail.threw
    /\ Len(advSource) = 3 /\ advSource[3]._id = "a2"
    /\ advSource[3] # srcTrail.before[3]
    /\ advSource[1].level = 2

-----------------------------------------------------------------------------
(* Properties of the enrichers                                             *)

\* the reference names an actor or an item that the world does not have
ItemUnresolved ==
    /\ enrichIn.type = "item"
    /\ enrichIn.ref.uuid
    /\ ~(enrichIn.world.actor /\ enrichIn.world.item)

\* C10: enrichCheck, enrichSave and enrichItem never throw; whenever they
\* warn about something unresolved they return the matched text unchanged,
\* and an item reference that cannot be resolved is warned about.
C10_EnrichersDegrade ==
    (enrichPc = "done" /\ enrichIn.type # "damage") =>
        /\ enrichOut.result \in {"input", "link", "passiveTag"}
        /\ enrichOut.warned => enrichOut.result = "input"
        /\ ItemUnresolved => (enrichOut.warned /\ enrichOut.result = "input")

\* an enrichCheck call that got past reading config.values
CheckDone ==
    /\ enrichPc = "done"
    /\ enrichIn.type \in {"check", "skill", "tool"}
    /\ enrichIn.config.iterable

\* the abilities the text gives, as `ability=...` or as a bare value
GivenAbilities ==
    ({enrichIn.config.ability} \ {Absent})
        \cup {enrichIn.config.values[i] : i \in
                {j \in DOMAIN enrichIn.config.values :
                    enrichIn.config.values[j] \in DOMAIN AbilityLookup}}

abilityKey(a) == IF a \in DOMAIN AbilityLookup THEN AbilityLookup[a].key ELSE a

\* C12: in enrichCheck, for a known skill, the resolved ability is the
\* skill's configured default ability when the text gives no ability, and an
\* ability the text gives (under its lookup key) when it gives one, whatever
\* the order of ability and skill in the text.
C12_SkillAbility ==
    (CheckDone /\ enrichOut.skill \in DOMAIN SkillLookup) =>
        /\ GivenAbilities = {}
              => enrichOut.ability = SkillLookup[enrichOut.skill].ability
        /\ GivenAbilities # {}
              => enrichOut.ability \in {abilityKey(a) : a \in GivenAbilities}

C12_Witness ==
    /\ CheckDone
    /\ enrichIn.config.values = <<"str", "acr">>
    /\ enrichIn.config.ability = Absent /\ enrichIn.config.skill = Absent
    /\ enrichOut.skill = "acr" /\ enrichOut.ability = "str"
    /\ enrichOut.result = "link"

\* an enrichDamage call that built the localized span (a formula, no label)
DamageDisplayed == enrichPc = "done" /\ enrichIn.type = "damage" /\ dmgOut.result = "span"

\* the bare value `average` is among the values
BareAverage == \E i \in DOMAIN dmgIn.values : dmgIn.values[i] = "average"

\* average=true is asked for, as `average=true` or as the bare value
AverageAsked == BareAverage \/ dmgIn.average \in {"true", "TRUE"}

\* C13: with average=true the displayed average is floor((min + max) / 2) of
\* the formula's minimized and maximized totals; for 2d6 it is 7.
C13_AverageIsFloorOfMean ==
    (DamageDisplayed /\ AverageAsked) =>
        /\ dmgOut.averageShown
        /\ 2 * dmgOut.average <= minTotal(dmgOut.formula) + maxTotal(dmgOut.formula)
        /\ 2 * dmgOut.average + 1 >= minTotal(dmgOut.formula) + maxTotal(dmgOut.formula)
        /\ dmgOut.formula = <<"2d6">> => dmgOut.average = 7

C13_Witness ==
    /\ DamageDisplayed
    /\ dmgIn.average = "true" /\ ~BareAverage
    /\ dmgOut.formula = <<"1d4", "+", "3">>
    /\ dmgOut.averageShown /\ dmgOut.average = 5

\* C14 as stated: a numeric average override is displayed as given for every
\* formula and the formula is not evaluated; the min/max evaluation happens
\* only when average is the boolean true.
C14_OverrideNeverRecomputed ==
    /\ (DamageDisplayed /\ dmgIn.average \in {"666", "0"})
          => /\ dmgOut.averageShown
             /\ dmgOut.average = NumberOf(dmgIn.average)
             /\ dmgOut.evaluations = 0
    /\ (enrichPc = "done" /\ dmgOut.evaluations > 0) => AverageAsked

\* C14 amended: a non-zero numeric override is displayed as given, without
\* any evaluation, unless the bare value `average` is also present (it
\* replaces the number by true); the override 0 displays no average; the
\* min/max evaluation happens only when average is the boolean true.
C14_NonZeroOverrideKept ==
    /\ (DamageDisplayed /\ dmgIn.average = "666" /\ ~BareAverage)
          => /\ dmgOut.averageShown
             /\ dmgOut.average = 666
             /\ dmgOut.evaluations = 0
    /\ (DamageDisplayed /\ dmgIn.average = "0" /\ ~BareAverage)
          => /\ ~dmgOut.averageShown
             /\ dmgOut.localizationType = "Short"
             /\ dmgOut.evaluations = 0
    /\ (DamageDisplayed /\ dmgIn.average \in {"666", "0"} /\ BareAverage)
          => /\ dmgOut.evaluations = 2
             /\ dmgOut.average = (minTotal(dmgOut.formula) + maxTotal(dmgOut.formula)) \div 2
    /\ (enrichPc = "done" /\ dmgOut.evaluations > 0) => AverageAsked

C14_Witness ==
    /\ DamageDisplayed
    /\ dmgIn.average = "666" /\ dmgIn.formula = "8d4dl" /\ dmgIn.values = <<"fire">>
    /\ dmgOut.averageShown /\ dmgOut.average = 666 /\ dmgOut.evaluations = 0
    /\ dmgOut.damageType = "fire"

-----------------------------------------------------------------------------
(* Properties of the roll links                                            *)

\* the documents an item link refers to exist
ItemResolvable ==
    LET l == clickIn.item
    IN  CASE l.method = "uuid"     -> l.owner /\ l.item
          [] l.method = "relative" ->
               /\ l.item /\ l.owner
               /\ l.location = "actor" \/ (l.location = "token" /\ l.scene)
          [] l.method = "name"     -> actorFound(clickIn) /\ l.item
          [] OTHER                 -> FALSE

\* C11: a click on a roll link without its prerequisite performs no roll:
\* with no actor for the speaker and a link of type check, save, skill or
\* tool, a warning is raised and no roll method is invoked; a link whose type
\* is not a roll type, or whose item reference does not resolve, invokes no
\* roll method either.
C11_MissingPrerequisiteBlocks ==
    (clickPc = "done" /\ clickIn.link) =>
        /\ (~actorFound(clickIn) /\ clickIn.type \in {"check", "save", "skill", "tool"})
              => /\ clickOut.warned
                 /\ clickOut.invoked = "none"
                 /\ ~clickOut.threw
        /\ clickIn.type \in {"attack", Absent}
              => (clickOut.invoked = "none" /\ clickOut.warned)
        /\ (clickIn.type = "item" /\ ~ItemResolvable) => clickOut.invoked = "none"

C11_Witness ==
    /\ clickPc = "done" /\ clickIn.link
    /\ clickIn.type = "skill" /\ clickIn.token = "stale" /\ clickIn.actor = "none"
    /\ clickOut.warned /\ clickOut.invoked = "none"

-----------------------------------------------------------------------------
(* Properties of ProficiencyCycleElement                                   *)

\* C20 as stated: in every reachable state the value is a member of
\* validValues for the current type, and a value the setter rejects with an
\* Error leaves the stored value unchanged.
C20_ValueAlwaysValid ==
    /\ includes(validValues(pce), pce.value)
    /\ (pceLast.op = "value" /\ pceLast.error = "Error") => pce.value = pceLast.before

\* the value the k-th step of the history left behind
ValueAfter(k) == IF k = Len(pceSteps) THEN pce.value ELSE pceSteps[k + 1].before

\* the step started from a member of validValues
ValidBefore(k) == includes(validValues(pce), pceSteps[k].before)

\* `after` is the neighbour of `before` in lv, the two ends being neighbours
OnePosition(lv, before, after, up) ==
    LET i == indexOf(lv, before)
        j == indexOf(lv, after)
    IN  IF up THEN j = i + 1 \/ (i = Len(lv) - 1 /\ j = 0)
        ELSE j = i - 1 \/ (i = 0 /\ j = Len(lv) - 1)

\* from a valid value: every step moves one position with wrap-around, a
\* step and the opposite step restore the value, and validValues.length
\* steps in one direction return to the start
StepsCycle ==
    LET lv == validValues(pce)
        n  == Len(pceSteps)
    IN  \A k \in 1..n :
            ValidBefore(k) =>
                /\ OnePosition(lv, pceSteps[k].before, ValueAfter(k), pceSteps[k].up)
                /\ (k < n /\ pceSteps[k + 1].up # pceSteps[k].up)
                        => ValueAfter(k + 1) = pceSteps[k].before
                /\ (/\ k + Len(lv) - 1 <= n
                    /\ \A j \in k..(k + Len(lv) - 1) : pceSteps[j].up = pceSteps[k].up)
                        => ValueAfter(k + Len(lv) - 1) = pceSteps[k].before

\* C21 as stated: step moves the value by exactly one position in
\* validValues with wrap-around at both ends (a step and its opposite
\* restore the value, validValues.length steps one way return to the
\* start), and each step dispatches exactly one change event.
C21_StepCycles ==
    /\ StepsCycle
    /\ \A k \in 1..Len(pceSteps) : ValidBefore(k) => pceSteps[k].changes = 1

\* C21 amended: the positions are as stated for every element; the one
\* change event per step is dispatched once the element has been connected,
\* while on an element that never was the step stores the value and throws
\* before the event is dispatched.
C21_StepCyclesOnceBuilt ==
    /\ StepsCycle
    /\ \A k \in 1..Len(pceSteps) :
           ValidBefore(k) => pceSteps[k].changes = (IF pce.built THEN 1 ELSE 0)

\* a built skill element stepped up four times: 0 -> 1 -> 0.5 -> 2 -> 0
C21_Witness ==
    /\ pce.built /\ typeOf(pce) = "skill"
    /\ Len(pceSteps) = 4
    /\ \A k \in 1..4 : pceSteps[k].up /\ pceSteps[k].changes = 1
    /\ <<pceSteps[1].before, pceSteps[2].before, pceSteps[3].before,
         pceSteps[4].before, pce.value>> = <<"0", "1", "0.5", "2", "0">>

\* the last operation was a click or contextmenu event on the connected
\* element
Clicked == pceLast.op \in {"click", "contextmenu"} /\ pce.connected

\* C27 as stated: on a connected element that is not disabled a left click
\* steps the value up by one position and a right click (contextmenu) steps
\* it down by one, each with one change event, after any sequence of
\* connectedCallback / disconnectedCallback calls that ends connected; a
\* click never changes the value of a disabled element.
C27_ClicksStepWhileConnected ==
    Clicked =>
        IF pce.disabled THEN pce.value = pceLast.before
        ELSE includes(validValues(pce), pceLast.before) =>
                /\ OnePosition(validValues(pce), pceLast.before, pce.value,
                               pceLast.op = "click" /\ pceLast.up)
                /\ pceLast.changes = 1

-----------------------------------------------------------------------------
(* Properties of CompendiumBrowser                                         *)

Intersected == ixPc = "done"

\* C22: intersectFilters(first, second) keeps a key only if both Maps
\* define it with the same type; a range filter is kept exactly when both
\* sides agree on having each bound and min <= max, with min the larger of
\* the two mins and max the smaller of the two maxes; a set filter is kept
\* exactly when some choice is in both, and holds exactly those choices;
\* neither argument is modified.
C22_IntersectionOfFilters ==
    Intersected =>
        /\ ixFirst = ixIn.first /\ ixSecond = ixIn.second
        /\ \A key \in FilterKeys :
              LET f == ixIn.first[key]
                  s == ixIn.second[key]
                  r == ixOut[key]
                  bothRange == f.type = "range" /\ s.type = "range"
                  bothSet == f.type = "set" /\ s.type = "set"
                  oneSided == \/ (f.min = NoBound) # (s.min = NoBound)
                              \/ (f.max = NoBound) # (s.max = NoBound)
                  lo == IF f.min = NoBound THEN NoBound ELSE MathMax(f.min, s.min)
                  hi == IF f.max = NoBound THEN NoBound ELSE MathMin(f.max, s.max)
              IN  /\ r # NoEntry => (f # NoEntry /\ s # NoEntry /\ f.type = s.type
                                       /\ r.type = f.type)
                  /\ bothRange =>
                        /\ r # NoEntry <=> (~oneSided
                                              /\ ~(lo # NoBound /\ hi # NoBound /\ lo > hi))
                        /\ r # NoEntry => (r.min = lo /\ r.max = hi)
                  /\ bothSet =>
                        /\ r # NoEntry <=> f.choices \cap s.choices # {}
                        /\ r # NoEntry => r.choices = f.choices \cap s.choices

\* both bounds are narrowed by the other side, and the second key is kept
C22_Witness ==
    /\ Intersected
    /\ ixIn.first["level"].type = "range" /\ ixIn.second["level"].type = "range"
    /\ ixIn.first["level"].min = 0 /\ ixIn.second["level"].min = 1
    /\ ixIn.first["level"].max = 1 /\ ixIn.second["level"].max = 2
    /\ ixOut["level"].min = 1 /\ ixOut["level"].max = 1
    /\ ixOut["properties"].type = "set"

Fetched == fPc = "done"

\* every document returned is from a pack of the requested class, of a
\* requested type, passes the caller's filters, is in no container, and
\* with the default sort the documents are in the order of their names
FetchSelects ==
    Fetched =>
        /\ \A j \in DOMAIN fOut :
              /\ fOut[j].packType = fArgs.documentClass
              /\ fArgs.types # {} => fOut[j].type \in fArgs.types
              /\ \A f \in DOMAIN fIn : checkOne(fOut[j], fIn[f])
              /\ fOut[j].container = Absent
        /\ fArgs.sort =>
              \A j \in 1..(Len(fOut) - 1) :
                  NameRank(fOut[j].name) <= NameRank(fOut[j + 1].name)

\* C23 as stated: every entry fetch returns is from a pack of the requested
\* document class, has a type in `types` when types is non-empty, satisfies
\* every filter of the caller and is in no container; the default sort
\* orders by name; and the caller's filters argument is not changed.
C23_FetchSelectsAndKeepsFilters ==
    /\ FetchSelects
    /\ Fetched => fFilters = fIn

Rendered == bLast.op # "none"

\* C24 as stated: once no fetch is outstanding, the rows in the results
\* table are those of the fetch started for the most recent filter state.
C24_RowsOfLatestFetch == (Rendered /\ bPending = {}) => bRows = bFetch

\* C25 as stated: every additional filter the sidebar displays and that has
\* a value is turned, with the definition the sidebar displayed, into
\* filters that are among those passed to fetch.
C25_SidebarFiltersApplied ==
    Rendered =>
        \A key \in {p[1][1] : p \in bFilters.additional} :
            bSidebar[key] # NoEntry =>
                LET made == filtersForKey(bSidebar[key], bCurrent.additional, key)
                IN  \A j \in DOMAIN made :
                        \E f \in DOMAIN bFetch.filters : bFetch.filters[f] = made[j]

\* C26: after any sequence of setFilter / setType actions currentFilters
\* agrees with options.filters.locked on every locked key, its
\* documentClass is defined, and reading it leaves the stored user filters
\* as the handler left them.
C26_LockedFiltersWin ==
    Rendered =>
        /\ bLocked.documentClass # Absent => bCurrent.documentClass = bLocked.documentClass
        /\ bLocked.typesLocked => bCurrent.types = bLocked.types
        /\ \A p \in bLocked.additional :
              \A q \in bCurrent.additional : q[1] = p[1] => q = p
        /\ bLocked.additional \subseteq bCurrent.additional
        /\ bCurrent.documentClass # Absent
        /\ bFilters = bLast.stored

\* the user chose another document class and another minimum than the
\* locked ones, or cleared the document class
C26_Witness ==
    /\ Rendered
    /\ valueAt(bLocked.additional, "level", "min") = "1"
    /\ valueAt(bFilters.additional, "level", "min") = "2"
    /\ valueAt(bCurrent.additional, "level", "min") = "1"
    /\ bFilters.documentClass = Absent
    /\ bCurrent.documentClass = "Item"

-----------------------------------------------------------------------------
(* Properties of GroupActorSheet                                           *)

\* C28 as stated: after close(), whatever renders, member additions and
\* member removals came before, no actor has the sheet under its id in its
\* apps registry.
C28_NoRegistrationAfterClose == gLast = "close" => gApps = {}

=============================================================================
